---------------------------- MODULE Spec2Model ----------------------------
(***************************************************************************)
(* Model of the probability engine of kalshi-weather-bot                   *)
(* (src/kalshi_weather/engine/probability.py): the ForecastCombiner, the   *)
(* ObservationAdjuster and the BracketProbabilityCalculator.               *)
(*                                                                         *)
(* Python floats are modelled as exact rationals n/d in lowest terms,      *)
(* together with the three special values nan, +inf and -inf.  The         *)
(* representable values are the fractions whose denominator is at most     *)
(* Precision; the result of an operation is rounded to the nearest of      *)
(* them, as a float operation rounds to the nearest representable value.   *)
(***************************************************************************)
EXTENDS Integers, Sequences, FiniteSets, TLC

\* Largest denominator of a representable value.
Precision == 1000

\* ------------------------------------------------------------------------
\* Float arithmetic
\* ------------------------------------------------------------------------

Abs(x) == IF x < 0 THEN -x ELSE x

RECURSIVE Gcd(_, _)
Gcd(a, b) == IF b = 0 THEN a ELSE Gcd(b, a % b)

Lcm(a, b) == (a \div Gcd(a, b)) * b

\* floor(r * g / d) and the remainder, for 0 <= r < d, without forming r * g.
RECURSIVE MulDiv(_, _, _)
MulDiv(r, g, d) ==
    IF g = 0 THEN [q |-> 0, m |-> 0]
    ELSE LET h  == MulDiv(r, g \div 2, d)
             q2 == 2 * h.q + ((2 * h.m) \div d)
             m2 == (2 * h.m) % d
         IN  IF g % 2 = 1
             THEN [q |-> q2 + ((m2 + r) \div d), m |-> (m2 + r) % d]
             ELSE [q |-> q2, m |-> m2]

\* The sign of a/b - c/e (b, e > 0), by comparing integer parts and then
\* the reciprocals of the fractional parts, without forming a * e.
RECURSIVE CmpFrac(_, _, _, _)
CmpFrac(a, b, c, e) ==
    IF a \div b # c \div e THEN (IF a \div b < c \div e THEN -1 ELSE 1)
    ELSE IF a % b = 0 /\ c % e = 0 THEN 0
    ELSE IF a % b = 0 THEN -1
    ELSE IF c % e = 0 THEN 1
    ELSE CHOOSE s \in {CmpFrac(x[1], x[2], x[3], x[4]) : x \in {<<e, c % e, b, a % b>>}} : TRUE

NaN  == [k |-> "nan", n |-> 0, d |-> 1]
PInf == [k |-> "inf", n |-> 1, d |-> 1]
NInf == [k |-> "inf", n |-> -1, d |-> 1]

\* The literal n/d exactly as written in the source (d > 0).
Lit(n, d) ==
    LET g == Gcd(Abs(n), d)
    IN  [k |-> "fin", n |-> n \div g, d |-> d \div g]

\* The last two continued-fraction convergents p0/q0, p1/q1 of n/d whose
\* denominators stay within Precision (0 <= n < d, d > Precision).
RECURSIVE Convergents(_, _, _, _, _, _)
Convergents(p0, q0, p1, q1, n, d) ==
    IF q0 + (n \div d) * q1 > Precision
    THEN [p0 |-> p0, q0 |-> q0, p1 |-> p1, q1 |-> q1]
    ELSE CHOOSE c \in {Convergents(x[1], x[2], x[3], x[4], x[5], x[6]) :
                        x \in {<<p1, q1, p0 + (n \div d) * p1, q0 + (n \div d) * q1,
                                 d, n % d>>}} : TRUE

\* The last semiconvergent within Precision that follows the convergents c.
SemiConvergent(c) ==
    [n |-> c.p0 + ((Precision - c.q0) \div c.q1) * c.p1,
     d |-> c.q0 + ((Precision - c.q0) \div c.q1) * c.q1]

\* The one of the fractions b1, b2 that is nearer to r/d, which lies between
\* them: b2 exactly when r/d is on b2's side of their midpoint.
Closer(r, d, b1, b2) ==
    IF (IF b1.n * b2.d < b2.n * b1.d THEN 1 ELSE -1)
         * CmpFrac(r, d, b1.n * b2.d + b2.n * b1.d, 2 * b1.d * b2.d) >= 0
    THEN b2 ELSE b1

\* The representable value nearest to r/d, for 0 <= r < d and d > Precision:
\* the closer of the last semiconvergent and the last convergent.
NearestFraction(r, d) ==
    CHOOSE f \in {Closer(r, d, SemiConvergent(c), [n |-> c.p1, d |-> c.q1]) :
                    c \in {Convergents(0, 1, 1, 0, r, d)}} : TRUE

\* The float nearest to n/d, for n/d in lowest terms.
Rounded(n, d) ==
    IF d <= Precision THEN [k |-> "fin", n |-> n, d |-> d]
    ELSE CHOOSE v \in {Lit((n \div d) * f.d + f.n, f.d) : f \in {NearestFraction(n % d, d)}} : TRUE

\* The float nearest to n/d (d > 0).
Fin(n, d) ==
    CHOOSE v \in {Rounded(n \div g, d \div g) : g \in {Gcd(Abs(n), d)}} : TRUE

IsNaN(a) == a.k = "nan"
IsInf(a) == a.k = "inf"
IsFin(a) == a.k = "fin"
Sign(a)  == IF a.n > 0 THEN 1 ELSE IF a.n < 0 THEN -1 ELSE 0

FNeg(a) == [a EXCEPT !.n = -a.n]

FAdd(a, b) ==
    IF IsNaN(a) \/ IsNaN(b) THEN NaN
    ELSE IF IsInf(a) /\ IsInf(b) THEN (IF a.n = b.n THEN a ELSE NaN)
    ELSE IF IsInf(a) THEN a
    ELSE IF IsInf(b) THEN b
    ELSE LET l == Lcm(a.d, b.d)
         IN  Fin(a.n * (l \div a.d) + b.n * (l \div b.d), l)

FSub(a, b) == FAdd(a, FNeg(b))

FMul(a, b) ==
    IF IsNaN(a) \/ IsNaN(b) THEN NaN
    ELSE IF IsInf(a) \/ IsInf(b)
         THEN (IF Sign(a) * Sign(b) = 0 THEN NaN
               ELSE IF Sign(a) * Sign(b) > 0 THEN PInf ELSE NInf)
    ELSE LET g1 == Gcd(Abs(a.n), b.d)
             g2 == Gcd(Abs(b.n), a.d)
         IN  Fin((a.n \div g1) * (b.n \div g2), (a.d \div g2) * (b.d \div g1))

\* a / b for b # 0 (a zero divisor raises ZeroDivisionError at the call site).
FDiv(a, b) ==
    IF IsNaN(a) \/ IsNaN(b) THEN NaN
    ELSE IF IsInf(b) THEN (IF IsInf(a) THEN NaN ELSE Lit(0, 1))
    ELSE IF b.n > 0 THEN FMul(a, [k |-> "fin", n |-> b.d, d |-> b.n])
    ELSE FMul(a, [k |-> "fin", n |-> -b.d, d |-> -b.n])

IsZero(a) == IsFin(a) /\ a.n = 0

\* Comparisons: every comparison with nan is False.
FLt(a, b) ==
    IF IsNaN(a) \/ IsNaN(b) THEN FALSE
    ELSE IF IsInf(a) THEN a.n < 0 /\ ~(IsInf(b) /\ b.n < 0)
    ELSE IF IsInf(b) THEN b.n > 0
    ELSE CmpFrac(a.n, a.d, b.n, b.d) < 0

FGt(a, b) == FLt(b, a)
FEq(a, b) == ~IsNaN(a) /\ ~IsNaN(b) /\ a = b
FLe(a, b) == FLt(a, b) \/ FEq(a, b)
FGe(a, b) == FLe(b, a)

\* Python's builtin max(a, b) / min(a, b): the first argument is kept unless
\* the second compares strictly greater / smaller.
PyMax(a, b) == IF FGt(b, a) THEN b ELSE a
PyMin(a, b) == IF FLt(b, a) THEN b ELSE a

FAbs(a) == [a EXCEPT !.n = Abs(a.n)]

\* Largest s with s * s <= v, for 0 <= v.
RECURSIVE ISqrtIn(_, _, _)
ISqrtIn(v, lo, hi) ==
    IF lo >= hi THEN lo
    ELSE LET mid == (lo + hi + 1) \div 2
         IN  IF mid * mid <= v THEN ISqrtIn(v, mid, hi) ELSE ISqrtIn(v, lo, mid - 1)

\* math.sqrt on a non-negative argument: exact on perfect squares, rounded
\* down to the grid otherwise.
FSqrt(a) ==
    IF IsNaN(a) THEN NaN
    ELSE IF IsInf(a) THEN PInf
    ELSE LET sn == ISqrtIn(a.n, 0, 46340)
             sd == ISqrtIn(a.d, 0, 46340)
         IN  IF sn * sn = a.n /\ sd * sd = a.d
             THEN Fin(sn, sd)
             ELSE LET whole == a.n \div a.d
                      md    == MulDiv(a.n % a.d, Precision, a.d)
                      v     == whole * Precision + md.q
                  IN  Fin(ISqrtIn(v * Precision, 0, 46340), Precision)

\* ------------------------------------------------------------------------
\* Strings: a str is a sequence of one-character strings, so that the
\* substring and case-folding tests of get_weight can be computed.
\* ------------------------------------------------------------------------

UpperToLower ==
    [c \in {"A","B","C","D","E","F","G","H","I","J","K","L","M",
            "N","O","P","Q","R","S","T","U","V","W","X","Y","Z"} |->
        CASE c = "A" -> "a" [] c = "B" -> "b" [] c = "C" -> "c" [] c = "D" -> "d"
          [] c = "E" -> "e" [] c = "F" -> "f" [] c = "G" -> "g" [] c = "H" -> "h"
          [] c = "I" -> "i" [] c = "J" -> "j" [] c = "K" -> "k" [] c = "L" -> "l"
          [] c = "M" -> "m" [] c = "N" -> "n" [] c = "O" -> "o" [] c = "P" -> "p"
          [] c = "Q" -> "q" [] c = "R" -> "r" [] c = "S" -> "s" [] c = "T" -> "t"
          [] c = "U" -> "u" [] c = "V" -> "v" [] c = "W" -> "w" [] c = "X" -> "x"
          [] c = "Y" -> "y" [] c = "Z" -> "z"]

\* str.lower()
Lower(s) == [i \in DOMAIN s |-> IF s[i] \in DOMAIN UpperToLower THEN UpperToLower[s[i]] ELSE s[i]]

\* Python's  sub in s  on strings
StrIn(sub, s) ==
    \E i \in 0..(Len(s) - Len(sub)) : SubSeq(s, i + 1, i + Len(sub)) = sub

S_NWS       == <<"N", "W", "S">>
S_ECMWF     == <<"E", "C", "M", "W", "F">>
S_BestMatch == <<"O", "p", "e", "n", "-", "M", "e", "t", "e", "o", " ", "B", "e", "s", "t", " ", "M", "a", "t", "c", "h">>
S_GFSHRRR   == <<"G", "F", "S", "+", "H", "R", "R", "R">>
S_GFS       == <<"G", "F", "S">>
S_HRRR      == <<"H", "R", "R", "R">>
S_Ensemble  == <<"O", "p", "e", "n", "-", "M", "e", "t", "e", "o", " ", "E", "n", "s", "e", "m", "b", "l", "e">>
S_default   == <<"d", "e", "f", "a", "u", "l", "t">>
S_Unknown   == <<"U", "n", "k", "n", "o", "w", "n">>
S_Bad       == <<"B", "a", "d">>
S_MyModel   == <<"M", "y", "M", "o", "d", "e", "l">>

\* ------------------------------------------------------------------------
\* Constants of probability.py
\* ------------------------------------------------------------------------

\* A dict is a sequence of entries in insertion order, keys distinct.
DEFAULT_WEIGHTS ==
    << [key |-> S_NWS,       weight |-> Lit(5, 1)],
       [key |-> S_ECMWF,     weight |-> Lit(4, 1)],
       [key |-> S_BestMatch, weight |-> Lit(7, 2)],
       [key |-> S_GFSHRRR,   weight |-> Lit(3, 1)],
       [key |-> S_GFS,       weight |-> Lit(5, 2)],
       [key |-> S_HRRR,      weight |-> Lit(5, 2)],
       [key |-> S_Ensemble,  weight |-> Lit(2, 1)],
       [key |-> S_default,   weight |-> Lit(1, 1)] >>

MIN_STD_DEV == Lit(3, 2)
MAX_STD_DEV == Lit(10, 1)

\* z_10 = 1.28155
Z_10 == Lit(128155, 100000)

\* ------------------------------------------------------------------------
\* ForecastCombiner
\* ------------------------------------------------------------------------

None == [tag |-> "None"]
Raise(exc) == [tag |-> "Raise", exc |-> exc]

\* forecast_temp_f = None
NoneF == [k |-> "none", n |-> 0, d |-> 1]

\* source in self.weights
DictHas(weights, key) == \E i \in DOMAIN weights : weights[i].key = key

\* self.weights[source], for a key the dict has
DictIndex(weights, key) == weights[CHOOSE i \in DOMAIN weights : weights[i].key = key].weight

\* self.weights.get(key, dflt)
DictGet(weights, key, dflt) == IF DictHas(weights, key) THEN DictIndex(weights, key) ELSE dflt

\* The partial-match loop of get_weight: the entries, in table order, whose
\* lower-cased key contains or is contained in the lower-cased source.
PartialMatches(weights, source) ==
    LET source_lower == Lower(source)
    IN  {i \in DOMAIN weights :
            \/ StrIn(Lower(weights[i].key), source_lower)
            \/ StrIn(source_lower, Lower(weights[i].key))}

SetMin(S) == CHOOSE m \in S : \A o \in S : m <= o

\* Mutant: the last partial match in table order gives the weight.
get_weight_fallback_LastMatch(weights, source) ==
    LET hits == PartialMatches(weights, source)
    IN  IF hits # {} THEN weights[CHOOSE i \in hits : \A o \in hits : o <= i].weight
        ELSE DictGet(weights, S_default, Lit(1, 1))

\* The part of get_weight after the exact-match test failed.
get_weight_fallback(weights, source) ==
    LET hits == PartialMatches(weights, source)
    IN  IF hits # {} THEN weights[SetMin(hits)].weight
        ELSE DictGet(weights, S_default, Lit(1, 1))

get_weight(weights, source) ==
    IF DictHas(weights, source) THEN DictIndex(weights, source)
    ELSE get_weight_fallback(weights, source)

\* sum(...) of a sequence of floats: 0 + s[1] + s[2] + ...
RECURSIVE FSumTo(_, _)
FSumTo(s, n) == IF n = 0 THEN Lit(0, 1) ELSE FAdd(FSumTo(s, n - 1), s[n])
FSum(s) == FSumTo(s, Len(s))

\* f.forecast_temp_f is not None and not math.isnan(f.forecast_temp_f)
IsValidForecast(f) == f.forecast_temp_f.k # "none" /\ ~IsNaN(f.forecast_temp_f)

\* Mutant: the floor is left out.
ClampStdDev_NoFloor(min_std_dev, max_std_dev, combined_std_dev) ==
    PyMin(max_std_dev, combined_std_dev)

\* max(min_std_dev, min(max_std_dev, combined_std_dev))
ClampStdDev(min_std_dev, max_std_dev, combined_std_dev) ==
    PyMax(min_std_dev, PyMin(max_std_dev, combined_std_dev))

\* {f.source: w for f, w in zip(valid_forecasts, normalized_weights)}:
\* a later entry with the same source replaces the earlier one.
WeightsUsed(valid_forecasts, normalized_weights) ==
    [s \in {valid_forecasts[i].source : i \in DOMAIN valid_forecasts} |->
        normalized_weights[CHOOSE i \in DOMAIN valid_forecasts :
            /\ valid_forecasts[i].source = s
            /\ \A j \in DOMAIN valid_forecasts :
                   valid_forecasts[j].source = s => j <= i]]

\* combine() once the weight of every valid forecast has been looked up.
\* pre_clamp_variance records the local combined_variance (the
\* variance before the floor and the ceiling), which the dataclass drops.
\* Mutant: the plain average of the means.
weighted_mean_Unweighted(normalized_weights, valid_forecasts) ==
    FDiv(FSum([i \in DOMAIN valid_forecasts |-> valid_forecasts[i].forecast_temp_f]),
         Lit(Len(valid_forecasts), 1))

\* sum(w * f.forecast_temp_f for w, f in zip(normalized_weights, valid_forecasts))
weighted_mean(normalized_weights, valid_forecasts) ==
    FSum([i \in DOMAIN valid_forecasts |->
            FMul(normalized_weights[i], valid_forecasts[i].forecast_temp_f)])

\* Mutant: the spread of the means is left out of the variance.
disagreement_variance_Zero(normalized_weights, valid_forecasts, mean) == Lit(0, 1)

\* sum(w * ((f.forecast_temp_f - weighted_mean) ** 2) for w, f in zip(...))
disagreement_variance(normalized_weights, valid_forecasts, mean) ==
    FSum([i \in DOMAIN valid_forecasts |->
            LET diff == FSub(valid_forecasts[i].forecast_temp_f, mean)
            IN  FMul(normalized_weights[i], FMul(diff, diff))])

CombineWith(weights, valid_forecasts, min_std_dev, max_std_dev) ==
    LET total_weight == FSum(weights)
    IN  IF IsZero(total_weight) THEN Raise("ZeroDivisionError")
        ELSE
        LET idx == DOMAIN valid_forecasts
            normalized_weights == [i \in idx |-> FDiv(weights[i], total_weight)]
            mean == weighted_mean(normalized_weights, valid_forecasts)
            pooled_variance ==
                FSum([i \in idx |-> FMul(normalized_weights[i],
                                         FMul(valid_forecasts[i].std_dev, valid_forecasts[i].std_dev))])
            combined_variance ==
                FAdd(pooled_variance,
                     disagreement_variance(normalized_weights, valid_forecasts, mean))
        IN  IF FLt(combined_variance, Lit(0, 1)) THEN Raise("ValueError")
            ELSE
            LET combined_std_dev ==
                    ClampStdDev(min_std_dev, max_std_dev, FSqrt(combined_variance))
            IN  [tag |-> "CombinedForecast",
                 target_date |-> valid_forecasts[1].target_date,
                 mean_temp_f |-> mean,
                 std_dev |-> combined_std_dev,
                 low_f |-> FSub(mean, FMul(Z_10, combined_std_dev)),
                 high_f |-> FAdd(mean, FMul(Z_10, combined_std_dev)),
                 source_count |-> Len(valid_forecasts),
                 sources_used |-> [i \in idx |-> valid_forecasts[i].source],
                 weights_used |-> WeightsUsed(valid_forecasts, normalized_weights),
                 pre_clamp_variance |-> combined_variance,
                 individual_forecasts |-> valid_forecasts]

\* ForecastCombiner.combine with self.weights = weights throughout the call.
Combine(weights, min_std_dev, max_std_dev, forecasts) ==
    IF forecasts = <<>> THEN None
    ELSE LET valid_forecasts == SelectSeq(forecasts, IsValidForecast)
         IN  IF valid_forecasts = <<>> THEN None
             ELSE CombineWith([i \in DOMAIN valid_forecasts |->
                                  get_weight(weights, valid_forecasts[i].source)],
                              valid_forecasts, min_std_dev, max_std_dev)

\* Mutant: the override is left in place.
RestoredWeights_NotRestored(original_weights, custom_weights) == custom_weights

\* self.weights after combine_with_custom_weights returns or raises:
\* the finally clause puts original_weights back.
RestoredWeights(original_weights, custom_weights) == original_weights

\* ------------------------------------------------------------------------
\* ObservationAdjuster
\* ------------------------------------------------------------------------

EARLY_CUTOFF_HOURS == Lit(2, 1)
LATE_CUTOFF_HOURS == Lit(4, 1)
MAX_OBSERVATION_WEIGHT == Lit(95, 100)
MIN_OBSERVATION_STD == Lit(1, 2)

\* current_time is the wall-clock reading in the adjuster's timezone: the
\* replace/astimezone step only re-expresses the instant in that zone, and
\* the seconds are not read.
_calculate_hours_since_noon(current_time) ==
    LET hours == FAdd(Lit(current_time.hour, 1), FDiv(Lit(current_time.minute, 1), Lit(60, 1)))
    IN  FSub(hours, Lit(12, 1))

\* Mutant: the first ramp climbs twice as fast, past the value the second
\* ramp starts from.
EarlyRamp_Steep(hours_since_noon) == FMul(Lit(3, 10), hours_since_noon)

\* Noon to 2 PM: return 0.15 * hours_since_noon
EarlyRamp(hours_since_noon) == FMul(Lit(15, 100), hours_since_noon)

\* Mutant: the last ramp never leaves 0.8.
LateRamp_Flat(self, hours_since_noon) == Lit(4, 5)

\* After 4 PM: the ramp from 0.8 to max_observation_weight over 4 hours.
LateRamp(self, hours_since_noon) ==
    LET extra_hours == FSub(hours_since_noon, LATE_CUTOFF_HOURS)
        progress    == PyMin(FDiv(extra_hours, Lit(4, 1)), Lit(1, 1))
        weight      == FAdd(Lit(4, 5),
                            FMul(FSub(self.max_observation_weight, Lit(4, 5)), progress))
    IN  PyMin(weight, self.max_observation_weight)

_calculate_observation_weight(self, hours_since_noon) ==
    IF FLe(hours_since_noon, Lit(0, 1)) THEN Lit(0, 1)
    ELSE IF FLt(hours_since_noon, EARLY_CUTOFF_HOURS) THEN EarlyRamp(hours_since_noon)
    ELSE IF FLt(hours_since_noon, LATE_CUTOFF_HOURS)
         THEN LET progress == FDiv(FSub(hours_since_noon, EARLY_CUTOFF_HOURS),
                                   FSub(LATE_CUTOFF_HOURS, EARLY_CUTOFF_HOURS))
              IN  FAdd(Lit(3, 10), FMul(Lit(1, 2), progress))
    ELSE LateRamp(self, hours_since_noon)

\* Mutant: the blend is returned without the floor at the observed high.
_calculate_adjusted_mean_NoFloor(forecast_mean, observed_high, observation_weight) ==
    FAdd(FMul(FSub(Lit(1, 1), observation_weight), forecast_mean),
         FMul(observation_weight, observed_high))

_calculate_adjusted_mean(forecast_mean, observed_high, observation_weight) ==
    LET forecast_weight == FSub(Lit(1, 1), observation_weight)
        blended_mean    == FAdd(FMul(forecast_weight, forecast_mean),
                                FMul(observation_weight, observed_high))
    IN  PyMax(blended_mean, observed_high)

_calculate_adjusted_std_dev(self, forecast_std, observation, observation_weight, adjusted_mean) ==
    LET station_uncertainty == FDiv(FSub(observation.possible_actual_high_high,
                                         observation.possible_actual_high_low), Lit(2, 1))
        forecast_weight     == FSub(Lit(1, 1), observation_weight)
        blended_std ==
            IF FGt(observation_weight, Lit(1, 2))
            THEN FAdd(FMul(forecast_weight, forecast_std),
                      FMul(observation_weight, station_uncertainty))
            ELSE LET temp_diff        == FAbs(FSub(adjusted_mean, observation.observed_high_f))
                     agreement_factor == PyMax(Lit(4, 5),
                                               FSub(Lit(1, 1), FDiv(temp_diff, Lit(20, 1))))
                 IN  FMul(forecast_std, agreement_factor)
    IN  PyMax(self.min_std_dev, blended_std)

\* ObservationAdjuster.adjust; observation is None or a DailyObservation.
\* Mutant: only a missing observation counts, one without readings is used.
HasNoObservation_OnlyNone(observation) == observation = None

\* observation is None or not observation.readings
HasNoObservation(observation) == observation = None \/ observation.readings = << >>

adjust(self, combined_forecast, observation, current_time) ==
    LET hours_since_noon == _calculate_hours_since_noon(current_time)
    IN  IF HasNoObservation(observation)
        THEN [tag                |-> "AdjustedForecast",
              target_date        |-> combined_forecast.target_date,
              mean_temp_f        |-> combined_forecast.mean_temp_f,
              std_dev            |-> combined_forecast.std_dev,
              low_f              |-> combined_forecast.low_f,
              high_f             |-> combined_forecast.high_f,
              original_forecast  |-> combined_forecast,
              observation        |-> None,
              observation_weight |-> Lit(0, 1),
              forecast_weight    |-> Lit(1, 1),
              hours_since_noon   |-> hours_since_noon,
              observed_high_f    |-> None,
              min_possible_high  |-> combined_forecast.low_f,
              max_possible_high  |-> combined_forecast.high_f]
        ELSE LET observation_weight == _calculate_observation_weight(self, hours_since_noon)
                 forecast_weight    == FSub(Lit(1, 1), observation_weight)
                 adjusted_mean == _calculate_adjusted_mean(combined_forecast.mean_temp_f,
                                                           observation.observed_high_f,
                                                           observation_weight)
                 adjusted_std  == _calculate_adjusted_std_dev(self, combined_forecast.std_dev,
                                                              observation, observation_weight,
                                                              adjusted_mean)
                 low_f         == FSub(adjusted_mean, FMul(Z_10, adjusted_std))
                 high_f        == FAdd(adjusted_mean, FMul(Z_10, adjusted_std))
                 min_possible  == observation.possible_actual_high_low
                 max_possible  ==
                     IF FGt(observation_weight, Lit(7, 10))
                     THEN FAdd(observation.possible_actual_high_high, adjusted_std)
                     ELSE PyMax(high_f, observation.possible_actual_high_high)
             IN  [tag                |-> "AdjustedForecast",
                  target_date        |-> combined_forecast.target_date,
                  mean_temp_f        |-> adjusted_mean,
                  std_dev            |-> adjusted_std,
                  low_f              |-> PyMax(low_f, min_possible),
                  high_f             |-> high_f,
                  original_forecast  |-> combined_forecast,
                  observation        |-> observation,
                  observation_weight |-> observation_weight,
                  forecast_weight    |-> forecast_weight,
                  hours_since_noon   |-> hours_since_noon,
                  observed_high_f    |-> observation.observed_high_f,
                  min_possible_high  |-> min_possible,
                  max_possible_high  |-> max_possible]

\* ------------------------------------------------------------------------
\* BracketProbabilityCalculator
\* ------------------------------------------------------------------------

\* math.erf at 0.0, 0.1, ..., 2.9, in ten-thousandths; 1 from 2.9 on.
ErfTable ==
    << 0, 1125, 2227, 3286, 4284, 5205, 6039, 6778, 7421, 7969,
       8427, 8802, 9103, 9340, 9523, 9661, 9763, 9838, 9891, 9928,
       9953, 9970, 9981, 9989, 9993, 9996, 9998, 9999, 9999, 10000 >>

\* math.erf for a finite x >= 0, interpolated between the table's entries.
ErfNonNeg(x) ==
    LET tenths == (10 * x.n) \div x.d
    IN  IF tenths >= Len(ErfTable) - 1 THEN Lit(1, 1)
        ELSE LET lo   == Lit(ErfTable[tenths + 1], 10000)
                 hi   == Lit(ErfTable[tenths + 2], 10000)
                 frac == FSub(FMul(Lit(10, 1), x), Lit(tenths, 1))
             IN  FAdd(lo, FMul(FSub(hi, lo), frac))

\* math.erf: odd, erf(nan) = nan, erf(+-inf) = +-1.
Erf(x) ==
    IF IsNaN(x) THEN NaN
    ELSE IF IsInf(x) THEN Lit(x.n, 1)
    ELSE IF x.n >= 0 THEN ErfNonNeg(x)
    ELSE FNeg(ErfNonNeg(FNeg(x)))

normal_cdf(x, mean, std_dev) ==
    IF FLe(std_dev, Lit(0, 1))
    THEN (IF FGe(x, mean) THEN Lit(1, 1) ELSE Lit(0, 1))
    ELSE LET z == FDiv(FSub(x, mean), std_dev)
         IN  FMul(Lit(1, 2), FAdd(Lit(1, 1), Erf(FDiv(z, FSqrt(Lit(2, 1))))))

\* Mutant: the result is returned as computed.
_clamp_probability_Unclamped(self, prob) == prob

\* Mutant: only the floor is applied.
_clamp_probability_NoCeiling(self, prob) == PyMax(self.min_prob, prob)

_clamp_probability(self, prob) == PyMax(self.min_prob, PyMin(self.max_prob, prob))

\* Mutant: the bounds themselves are the limits.
IntegrationLimits_AtBounds(bracket) ==
    IF bracket.bracket_type = "between"
    THEN [lo |-> bracket.lower_bound, hi |-> bracket.upper_bound]
    ELSE IF bracket.bracket_type = "greater_than"
    THEN [lo |-> bracket.lower_bound, hi |-> PInf]
    ELSE [lo |-> NInf, hi |-> bracket.upper_bound]

\* The points at which calculate_bracket_probability evaluates normal_cdf:
\* upper + 0.5 and lower - 0.5 for BETWEEN, threshold + 0.5 upwards for
\* GREATER_THAN (1.0 - CDF), up to threshold - 0.5 for LESS_THAN (CDF alone).
IntegrationLimits(bracket) ==
    IF bracket.bracket_type = "between"
    THEN [lo |-> FSub(bracket.lower_bound, Lit(1, 2)),
          hi |-> FAdd(bracket.upper_bound, Lit(1, 2))]
    ELSE IF bracket.bracket_type = "greater_than"
    THEN [lo |-> FAdd(bracket.lower_bound, Lit(1, 2)), hi |-> PInf]
    ELSE [lo |-> NInf, hi |-> FSub(bracket.upper_bound, Lit(1, 2))]

\* Mutant: the bounds are used as they are, without the half degree.
UnclampedProbability_NoHalfDegree(bracket, mean, std_dev) ==
    IF bracket.bracket_type = "between"
    THEN FSub(normal_cdf(bracket.upper_bound, mean, std_dev),
              normal_cdf(bracket.lower_bound, mean, std_dev))
    ELSE IF bracket.bracket_type = "greater_than"
    THEN FSub(Lit(1, 1), normal_cdf(bracket.lower_bound, mean, std_dev))
    ELSE IF bracket.bracket_type = "less_than"
    THEN normal_cdf(bracket.upper_bound, mean, std_dev)
    ELSE Lit(0, 1)

\* The probability before clamping, by bracket type.
UnclampedProbability(bracket, mean, std_dev) ==
    IF bracket.bracket_type = "between"
    THEN FSub(normal_cdf(IntegrationLimits(bracket).hi, mean, std_dev),
              normal_cdf(IntegrationLimits(bracket).lo, mean, std_dev))
    ELSE IF bracket.bracket_type = "greater_than"
    THEN FSub(Lit(1, 1), normal_cdf(IntegrationLimits(bracket).lo, mean, std_dev))
    ELSE IF bracket.bracket_type = "less_than"
    THEN normal_cdf(IntegrationLimits(bracket).hi, mean, std_dev)
    ELSE Lit(0, 1)

calculate_bracket_probability(self, bracket, mean, std_dev) ==
    _clamp_probability(self, UnclampedProbability(bracket, mean, std_dev))

\* One BracketProbability per bracket, in the order of the brackets.
calculate_all_probabilities(self, brackets, mean, std_dev) ==
    [i \in 1..Len(brackets) |->
        LET bracket     == brackets[i]
            model_prob  == calculate_bracket_probability(self, bracket, mean, std_dev)
            market_prob == bracket.implied_prob
            edge        == FSub(model_prob, market_prob)
        IN  [bracket     |-> bracket,
             model_prob  |-> model_prob,
             market_prob |-> market_prob,
             edge        |-> edge,
             edge_pct    |-> FMul(edge, Lit(100, 1))]]

\* ------------------------------------------------------------------------
\* Inputs
\* ------------------------------------------------------------------------

\* Longest forecast list handed to the combiner.
MaxForecasts == 2

TARGET_DATE == "2026-01-20"

Forecast(source, temp_f, std_dev) ==
    [source |-> source, target_date |-> TARGET_DATE,
     forecast_temp_f |-> temp_f, std_dev |-> std_dev]

ForecastPool ==
    { Forecast(S_NWS,     Lit(55, 1), Lit(2, 1)),
      Forecast(S_ECMWF,   Lit(56, 1), Lit(2, 1)),
      Forecast(S_NWS,     Lit(30, 1), Lit(5, 1)),
      Forecast(S_ECMWF,   Lit(55, 1), Lit(1, 2)),
      Forecast(S_Bad,     NaN,        Lit(2, 1)),
      Forecast(S_GFS,     PInf,       Lit(2, 1)),
      Forecast(S_HRRR,    NInf,       Lit(2, 1)) }

ForecastLists == UNION {[1..n -> ForecastPool] : n \in 0..MaxForecasts}

\* Weight tables a combiner is constructed with: the default table, and
\* the table of test_custom_weights with a raised std-dev floor.
CombinerConfigs ==
    { [weights |-> DEFAULT_WEIGHTS, min_std_dev |-> MIN_STD_DEV, max_std_dev |-> MAX_STD_DEV],
      [weights |-> << [key |-> S_MyModel, weight |-> Lit(10, 1)],
                      [key |-> S_default, weight |-> Lit(1, 2)] >>,
       min_std_dev |-> Lit(3, 1), max_std_dev |-> MAX_STD_DEV] }

\* Tables passed to combine_with_custom_weights.
CustomTables ==
    { << [key |-> S_NWS, weight |-> Lit(100, 1)], [key |-> S_default, weight |-> Lit(1, 1)] >>,
      << [key |-> S_NWS, weight |-> Lit(0, 1)],   [key |-> S_default, weight |-> Lit(0, 1)] >>,
      << >> }

NotCalled == [tag |-> "NotCalled"]

\* ObservationAdjuster(): the defaults, and a lower ceiling on the weight.
DefaultAdjuster ==
    [min_std_dev |-> MIN_STD_DEV, max_observation_weight |-> MAX_OBSERVATION_WEIGHT]

AdjusterConfigs ==
    { DefaultAdjuster,
      [min_std_dev |-> MIN_STD_DEV, max_observation_weight |-> Lit(1, 2)],
      [min_std_dev |-> Lit(3, 1), max_observation_weight |-> MAX_OBSERVATION_WEIGHT] }

\* Times of day, as read in the adjuster's timezone.
Times == [hour : 0..23, minute : 0..59]

Midnight == [hour |-> 0, minute |-> 0]

\* Spacing in minutes of the times of day handed to adjust.
MinuteStep == 90

AdjustTimes == {t \in Times : (60 * t.hour + t.minute) % MinuteStep = 0}

DailyObservation(observed_high, low_bound, high_bound, readings) ==
    [observed_high_f          |-> observed_high,
     possible_actual_high_low  |-> low_bound,
     possible_actual_high_high |-> high_bound,
     readings                  |-> readings]

\* make_observation of the tests: one reading, bounds a degree either side;
\* and an observation without readings.
Observations ==
    { DailyObservation(Lit(54, 1), Lit(53, 1), Lit(55, 1), << Lit(54, 1) >>),
      DailyObservation(Lit(58, 1), Lit(57, 1), Lit(59, 1), << Lit(58, 1) >>),
      DailyObservation(Lit(40, 1), Lit(79, 2), Lit(81, 2), << Lit(40, 1) >>),
      DailyObservation(Lit(54, 1), Lit(53, 1), Lit(55, 1), << >>) }

\* The forecast lists combined before an adjustment.
AdjustLists ==
    { << Forecast(S_NWS, Lit(55, 1), Lit(2, 1)) >>,
      << Forecast(S_NWS, Lit(55, 1), Lit(2, 1)), Forecast(S_ECMWF, Lit(56, 1), Lit(2, 1)) >>,
      << Forecast(S_NWS, Lit(30, 1), Lit(5, 1)) >>,
      << Forecast(S_GFS, PInf, Lit(2, 1)) >>,
      << Forecast(S_GFS, PInf, Lit(2, 1)), Forecast(S_HRRR, NInf, Lit(2, 1)) >>,
      << >> }

\* Settings the EdgeDetector is constructed and called with.
MIN_EDGE_THRESHOLD == Lit(8, 100)
KALSHI_FEE_RATE == Lit(1, 10)

\* EdgeDetector(): the default fee rate; its prob_calculator is a default
\* BracketProbabilityCalculator.
DefaultDetector == [fee_rate |-> KALSHI_FEE_RATE]

\* BracketProbabilityCalculator(): the defaults, and a wider margin.
DefaultCalculator == [min_prob |-> Lit(1, 1000), max_prob |-> Lit(999, 1000)]

CalculatorConfigs ==
    { DefaultCalculator, [min_prob |-> Lit(1, 100), max_prob |-> Lit(99, 100)] }

\* The mid-market probability of a bid and an ask in cents.
calculate_implied_probability(yes_bid, yes_ask) ==
    IF yes_bid = 0 /\ yes_ask = 0 THEN Lit(0, 1)
    ELSE IF yes_bid >= 100 \/ yes_ask >= 100 THEN Lit(1, 1)
    ELSE FDiv(FDiv(Lit(yes_bid + yes_ask, 1), Lit(2, 1)), Lit(100, 1))

\* The MarketBracket parsed from a market: its type and bounds, its bid and
\* ask, and the implied probability derived from them.
parse_market_to_bracket(bracket_type, lower_bound, upper_bound, yes_bid, yes_ask) ==
    [bracket_type |-> bracket_type, lower_bound |-> lower_bound, upper_bound |-> upper_bound,
     yes_bid |-> yes_bid, yes_ask |-> yes_ask,
     implied_prob |-> calculate_implied_probability(yes_bid, yes_ask)]

\* A bracket quoted at 18 bid, 22 ask.
MarketBracket(bracket_type, lower_bound, upper_bound) ==
    parse_market_to_bracket(bracket_type, lower_bound, upper_bound, 18, 22)

\* Mutant: the ends of a BETWEEN bracket are left out.
contains_temp_Strict(self, temp) ==
    IF self.bracket_type = "between"
    THEN FLt(self.lower_bound, temp) /\ FLt(temp, self.upper_bound)
    ELSE IF self.bracket_type = "greater_than" THEN FGt(temp, self.lower_bound)
    ELSE IF self.bracket_type = "less_than" THEN FLt(temp, self.upper_bound)
    ELSE FALSE

\* MarketBracket.contains_temp: whether a temperature settles in the bracket.
contains_temp(self, temp) ==
    IF self.bracket_type = "between"
    THEN FLe(self.lower_bound, temp) /\ FLe(temp, self.upper_bound)
    ELSE IF self.bracket_type = "greater_than" THEN FGt(temp, self.lower_bound)
    ELSE IF self.bracket_type = "less_than" THEN FLt(temp, self.upper_bound)
    ELSE FALSE

\* Brackets priced: the three BracketType members, a BETWEEN bracket with
\* its bounds the wrong way round, and brackets whose bracket_type is none
\* of the three.
Brackets ==
    { MarketBracket("between", Lit(54, 1), Lit(56, 1)),
      MarketBracket("between", Lit(55, 1), Lit(55, 1)),
      MarketBracket("between", Lit(56, 1), Lit(54, 1)),
      MarketBracket("greater_than", Lit(58, 1), None),
      MarketBracket("greater_than", Lit(50, 1), None),
      MarketBracket("less_than", None, Lit(50, 1)),
      MarketBracket("less_than", None, Lit(60, 1)),
      MarketBracket("other", Lit(54, 1), Lit(56, 1)),
      MarketBracket("other", None, None) }

\* The complete partition LESS_THAN(a), n BETWEEN brackets of the given
\* width from a upwards, GREATER_THAN(the last upper bound).
Partition(a, width, n) ==
    [i \in 1..(n + 2) |->
        IF i = 1 THEN MarketBracket("less_than", None, Lit(a, 1))
        ELSE IF i = n + 2 THEN MarketBracket("greater_than", Lit(a + n * width - 1, 1), None)
        ELSE MarketBracket("between", Lit(a + (i - 2) * width, 1),
                           Lit(a + (i - 1) * width - 1, 1))]

\* Bracket lists priced together: the partition of the tests, a market of
\* six brackets, the shortest partition, a list that is no partition, and
\* the empty list.
BracketLists ==
    { Partition(48, 2, 3),
      Partition(50, 2, 4),
      Partition(55, 1, 1),
      << MarketBracket("between", Lit(54, 1), Lit(56, 1)),
         MarketBracket("greater_than", Lit(50, 1), None) >>,
      << >> }

\* Temperatures a bracket is asked about: the bounds of the brackets, values
\* a tenth or a hundredth of a degree either side, and non-finite values.
Temps ==
    { Lit(54, 1), Lit(56, 1), Lit(539, 10), Lit(561, 10), Lit(55, 1),
      Lit(58, 1), Lit(5801, 100), Lit(50, 1), Lit(4999, 100), Lit(60, 1),
      Lit(0, 1), Lit(100, 1), PInf, NInf, NaN,
      Lit(53, 1), Lit(57, 1), Lit(59, 1), Lit(49, 1), Lit(51, 1) }

\* Means and std-devs a bracket is priced under.
Means == { Lit(55, 1), Lit(109, 2), Lit(30, 1), PInf, NaN }

StdDevs == { Lit(2, 1), Lit(3, 2), Lit(10, 1), Lit(0, 1), Lit(-1, 1), NaN }

\* Means a list of brackets is priced under.
ListMeans == { Lit(51, 1), Lit(109, 2), PInf, NaN }

\* ------------------------------------------------------------------------
\* EdgeDetector
\* ------------------------------------------------------------------------

\* combine_forecasts(forecasts): a ForecastCombiner with the defaults.
combine_forecasts(fs) ==
    Combine(DEFAULT_WEIGHTS, MIN_STD_DEV, MAX_STD_DEV, fs)

\* adjust_forecast_with_observations(combined, observation), at the time it
\* is called: an ObservationAdjuster with the defaults.
adjust_forecast_with_observations(combined_forecast, observation, now) ==
    adjust(DefaultAdjuster, combined_forecast, observation, now)

calculate_from_adjusted_forecast(self, adjusted_forecast, brackets) ==
    calculate_all_probabilities(self, brackets, adjusted_forecast.mean_temp_f,
                                adjusted_forecast.std_dev)

\* Mutant: the edge score does not go below 0.5.
edge_score_FloorHalf(edge) ==
    PyMin(Lit(1, 1),
          PyMax(Lit(1, 2),
                FAdd(FMul(FDiv(FSub(edge, Lit(5, 100)), Lit(15, 100)), Lit(1, 2)),
                     Lit(1, 2))))

\* The edge-magnitude score of _calculate_confidence.
edge_score(edge) ==
    PyMin(Lit(1, 1),
          PyMax(Lit(0, 1),
                FAdd(FMul(FDiv(FSub(edge, Lit(5, 100)), Lit(15, 100)), Lit(1, 2)),
                     Lit(1, 2))))

\* The uncertainty score of _calculate_confidence.
unc_score(std_dev) ==
    PyMax(Lit(0, 1),
          PyMin(Lit(1, 1),
                FSub(Lit(1, 1),
                     FMul(FDiv(FSub(std_dev, Lit(3, 2)), Lit(7, 2)), Lit(1, 2)))))

_calculate_confidence(self, edge, std_dev) ==
    FDiv(FAdd(edge_score(edge), unc_score(std_dev)), Lit(2, 1))

TradingSignal(bp, direction, edge, conf) ==
    [bracket |-> bp.bracket, direction |-> direction, model_prob |-> bp.model_prob,
     market_prob |-> bp.market_prob, edge |-> edge, confidence |-> conf]

\* Mutant: the fee is left out of the cost.
EffectiveCost_NoFee(self, cost) == cost

\* Mutant: the fee is taken off the cost.
EffectiveCost_Discounted(self, cost) == FMul(cost, FSub(Lit(1, 1), self.fee_rate))

\* entry cost / (1.0 - self.fee_rate)
EffectiveCost(self, cost) == FDiv(cost, FSub(Lit(1, 1), self.fee_rate))

\* Mutant: every price is taken.
ValidPrice_Any(cost) == TRUE

\* 0 < cost < 1.0
ValidPrice(cost) == FLt(Lit(0, 1), cost) /\ FLt(cost, Lit(1, 1))

\* Mutant: the NO side is priced at the bid itself.
entry_price_no_AtBid(bracket) == FDiv(Lit(bracket.yes_bid, 1), Lit(100, 1))

\* entry_price_no = 1.00 - (bp.bracket.yes_bid / 100.0)
entry_price_no(bracket) == FSub(Lit(1, 1), FDiv(Lit(bracket.yes_bid, 1), Lit(100, 1)))

\* The long check of one bracket: the YES signal it appends, if any.
LongSignals(self, bp, min_edge, std_dev) ==
    LET entry_cost == FDiv(Lit(bp.bracket.yes_ask, 1), Lit(100, 1))
    IN  IF ValidPrice(entry_cost)
        THEN LET effective_ask == EffectiveCost(self, entry_cost)
                 edge_long     == FSub(bp.model_prob, effective_ask)
             IN  IF FGt(edge_long, min_edge)
                 THEN << TradingSignal(bp, "YES", edge_long,
                                       _calculate_confidence(self, edge_long, std_dev)) >>
                 ELSE << >>
        ELSE << >>

\* The short check of one bracket: the NO signal it appends, if any.
ShortSignals(self, bp, min_edge, std_dev) ==
    LET price_no == entry_price_no(bp.bracket)
    IN  IF ValidPrice(price_no)
        THEN LET effective_ask_no == EffectiveCost(self, price_no)
                 model_prob_no    == FSub(Lit(1, 1), bp.model_prob)
                 edge_short       == FSub(model_prob_no, effective_ask_no)
             IN  IF FGt(edge_short, min_edge)
                 THEN << TradingSignal(bp, "NO", edge_short,
                                       _calculate_confidence(self, edge_short, std_dev)) >>
                 ELSE << >>
        ELSE << >>

\* The signals list after the first n brackets of the loop.
RECURSIVE SignalsTo(_, _, _, _, _)
SignalsTo(self, model_probs, min_edge, std_dev, n) ==
    IF n = 0 THEN << >>
    ELSE SignalsTo(self, model_probs, min_edge, std_dev, n - 1)
            \o LongSignals(self, model_probs[n], min_edge, std_dev)
            \o ShortSignals(self, model_probs[n], min_edge, std_dev)

\* Mutant: a signal goes in front of the signals of equal edge.
InsertByEdge_BeforeEqual(sorted, s) ==
    LET k == Cardinality({i \in DOMAIN sorted : FGt(sorted[i].edge, s.edge)})
    IN  SubSeq(sorted, 1, k) \o << s >> \o SubSeq(sorted, k + 1, Len(sorted))

\* A signal put into a list in descending order of edge, behind the
\* signals of equal edge already there.
InsertByEdge(sorted, s) ==
    LET k == Cardinality({i \in DOMAIN sorted : FGe(sorted[i].edge, s.edge)})
    IN  SubSeq(sorted, 1, k) \o << s >> \o SubSeq(sorted, k + 1, Len(sorted))

\* signals.sort(key=lambda s: s.edge, reverse=True): a stable sort.
RECURSIVE SortedTo(_, _)
SortedTo(signals, n) ==
    IF n = 0 THEN << >> ELSE InsertByEdge(SortedTo(signals, n - 1), signals[n])

SortByEdgeDescending(signals) == SortedTo(signals, Len(signals))

\* The three early returns of analyze: no forecasts, no brackets, nothing
\* combined.
EarlyReturn(fs, brackets, combined) ==
    fs = << >> \/ brackets = << >> \/ combined = None

\* Step 4 of analyze and the sort, on the bracket probabilities.
AnalyzePriced(self, combined, adj, model_probs, min_edge) ==
    CHOOSE trace \in
        { [combined |-> combined, adjusted |-> adj, model_probs |-> model_probs,
           signals |-> signals, returned |-> SortByEdgeDescending(signals)] :
            signals \in { SignalsTo(self, model_probs, min_edge, adj.std_dev,
                                    Len(model_probs)) } } : TRUE

\* Step 3 of analyze and what follows, on the adjusted forecast.
AnalyzeAdjusted(self, combined, adj, brackets, min_edge) ==
    CHOOSE trace \in
        { AnalyzePriced(self, combined, adj, model_probs, min_edge) :
            model_probs \in
                { calculate_from_adjusted_forecast(DefaultCalculator, adj, brackets) } } : TRUE

\* Step 2 of analyze and what follows, on the forecast the combiner returned.
AnalyzeCombined(self, combined, observation, brackets, min_edge, now) ==
    CHOOSE trace \in
        { AnalyzeAdjusted(self, combined, adj, brackets, min_edge) :
            adj \in { adjust_forecast_with_observations(combined, observation, now) } } : TRUE

\* EdgeDetector.analyze(forecasts, observation, brackets, min_edge), called
\* at the time now: what it computed on the way and what it returned.
analyze(self, fs, observation, brackets, min_edge, now) ==
    CHOOSE trace \in
        { IF EarlyReturn(fs, brackets, combined)
          THEN [combined |-> combined, adjusted |-> NotCalled, model_probs |-> NotCalled,
                signals |-> << >>, returned |-> << >>]
          ELSE AnalyzeCombined(self, combined, observation, brackets, min_edge, now) :
            combined \in { IF fs = << >> \/ brackets = << >> THEN NotCalled
                           ELSE combine_forecasts(fs) } } : TRUE

\* EdgeDetector(fee_rate): the default, no fee, and the fee of the tests.
DetectorConfigs ==
    { DefaultDetector, [fee_rate |-> Lit(0, 1)], [fee_rate |-> Lit(1, 2)] }

\* Forecast lists analysed: none, one source, a source whose mean is nan,
\* and a source whose mean is infinite.
AnalyzeLists ==
    { << >>,
      << Forecast(S_NWS, Lit(55, 1), Lit(2, 1)) >>,
      << Forecast(S_Bad, NaN, Lit(2, 1)) >>,
      << Forecast(S_GFS, PInf, Lit(2, 1)) >> }

AnalyzeObservations ==
    { None, DailyObservation(Lit(54, 1), Lit(53, 1), Lit(55, 1), << Lit(54, 1) >>) }

\* The time of day analyze is called at.
AnalyzeTimes == { [hour |-> 18, minute |-> 0] }

\* Markets analysed: none; a market with an unquoted bracket, two brackets
\* quoted cheaply at the same ask, an overpriced bracket and a bracket with
\* degenerate quotes; and the partition of the tests quoted at 18 / 22.
AnalyzeBrackets ==
    { << >>,
      << parse_market_to_bracket("less_than", None, Lit(53, 1), 0, 100),
         parse_market_to_bracket("between", Lit(54, 1), Lit(56, 1), 18, 22),
         parse_market_to_bracket("between", Lit(54, 1), Lit(56, 1), 10, 22),
         parse_market_to_bracket("greater_than", Lit(58, 1), None, 60, 65),
         parse_market_to_bracket("between", Lit(57, 1), Lit(58, 1), 100, 0),
         parse_market_to_bracket("between", Lit(54, 1), Lit(56, 1), 90, 10) >>,
      Partition(48, 2, 3) }

MinEdges == { MIN_EDGE_THRESHOLD, Lit(3, 10) }

\* Edges and std-devs a confidence is calculated for: the ends of the two
\* ramps, values inside and either side of them, and non-finite values.
ConfidenceEdges ==
    { Lit(-1, 2), Lit(-1, 10), Lit(-1, 40), Lit(0, 1), Lit(5, 100), Lit(8, 100),
      Lit(1, 10), Lit(1, 8), Lit(2, 10), Lit(3, 10), PInf, NaN }

ConfidenceStdDevs ==
    { Lit(1, 2), Lit(3, 2), Lit(2, 1), Lit(13, 4), Lit(5, 1), Lit(6, 1),
      Lit(17, 2), Lit(10, 1), PInf, NaN }

\* ------------------------------------------------------------------------
\* State
\* ------------------------------------------------------------------------

VARIABLES
    configured,     \* the arguments the ForecastCombiner was constructed with
    combiner,       \* the ForecastCombiner: weights, min_std_dev, max_std_dev
    forecasts,      \* the forecast list of this session
    last_call,      \* the last call made on the combiner
    result,         \* what that call returned (None, a CombinedForecast) or raised
    first_result,   \* what the first combine(forecasts) of the session returned
    custom_raised,  \* whether a combine_with_custom_weights call has raised so far
    threads,        \* the calls in progress on the combiner, one per thread
    adjuster,       \* the ObservationAdjuster: min_std_dev, max_observation_weight
    current_time,   \* the time of day in the adjuster's timezone
    observation_weight, \* the weight the adjuster gives observations at current_time
    adjusted,       \* what the last adjust call returned
    last_observation, \* the observation the last adjust call was given
    calculator,     \* the BracketProbabilityCalculator: min_prob, max_prob
    probability,    \* the last calculate_bracket_probability call and what it returned
    all_probabilities, \* the last calculate_all_probabilities call and what it returned
    contained,      \* the last MarketBracket.contains_temp call and what it returned
    detector,       \* the EdgeDetector: fee_rate
    analysis,       \* the last analyze call and what it returned
    confidence      \* the last _calculate_confidence call and what it returned

combinerVars == <<configured, combiner, forecasts, last_call, result, first_result,
                  custom_raised, threads>>
adjusterVars == <<adjuster, current_time, observation_weight, adjusted, last_observation>>
calculatorVars == <<calculator, probability, all_probabilities, contained>>
detectorVars == <<detector, analysis, confidence>>

vars == <<combinerVars, adjusterVars, calculatorVars, detectorVars>>

\* A default adjuster / calculator that has not been used.
AdjusterIdle ==
    /\ adjuster = DefaultAdjuster
    /\ current_time = Midnight
    /\ observation_weight = NotCalled
    /\ adjusted = NotCalled
    /\ last_observation = NotCalled

CalculatorIdle ==
    /\ calculator = DefaultCalculator
    /\ probability = NotCalled
    /\ all_probabilities = NotCalled
    /\ contained = NotCalled

\* A default detector that has not been used.
DetectorIdle ==
    /\ detector = DefaultDetector
    /\ analysis = NotCalled
    /\ confidence = NotCalled

\* A default combiner that has not been used.
CombinerIdle ==
    /\ configured = [weights |-> DEFAULT_WEIGHTS, min_std_dev |-> MIN_STD_DEV,
                     max_std_dev |-> MAX_STD_DEV]
    /\ combiner = configured
    /\ forecasts = << >>
    /\ last_call = NotCalled
    /\ result = NotCalled
    /\ first_result = NotCalled
    /\ custom_raised = FALSE
    /\ threads = << >>

\* ------------------------------------------------------------------------
\* Sequential use of one ForecastCombiner
\* ------------------------------------------------------------------------

Init ==
    /\ configured \in CombinerConfigs
    /\ combiner = configured
    /\ forecasts \in ForecastLists
    /\ last_call = NotCalled
    /\ result = NotCalled
    /\ first_result = NotCalled
    /\ custom_raised = FALSE
    /\ threads = << >>
    /\ AdjusterIdle
    /\ CalculatorIdle
    /\ DetectorIdle

\* combiner.combine(forecasts)
CallCombine ==
    /\ result' = Combine(combiner.weights, combiner.min_std_dev, combiner.max_std_dev, forecasts)
    /\ last_call' = [op |-> "combine", forecasts |-> forecasts, custom_weights |-> << >>]
    /\ first_result' = IF first_result = NotCalled THEN result' ELSE first_result
    /\ UNCHANGED <<configured, combiner, forecasts, custom_raised, threads>>
    /\ UNCHANGED <<adjusterVars, calculatorVars, detectorVars>>

\* combiner.combine_with_custom_weights(forecasts, custom_weights)
CallCombineWithCustomWeights ==
    \E custom_weights \in CustomTables :
        LET original_weights == combiner.weights
        IN  /\ result' = Combine(custom_weights, combiner.min_std_dev, combiner.max_std_dev, forecasts)
            /\ custom_raised' = (custom_raised \/ result'.tag = "Raise")
            /\ combiner' = [combiner EXCEPT !.weights = RestoredWeights(original_weights, custom_weights)]
            /\ last_call' = [op |-> "combine_with_custom_weights", forecasts |-> forecasts,
                             custom_weights |-> custom_weights]
            /\ UNCHANGED <<configured, forecasts, first_result, threads>>
            /\ UNCHANGED <<adjusterVars, calculatorVars, detectorVars>>

Next == CallCombine \/ CallCombineWithCustomWeights

Spec == Init /\ [][Next]_vars

\* ------------------------------------------------------------------------
\* Two threads calling one ForecastCombiner without a lock.  A step is one
\* access to self.weights: the interpreter may switch threads between any
\* two of them.
\* ------------------------------------------------------------------------

Threads == {"A", "B"}

\* The lists the two threads combine: an exact key and a source no key matches.
RaceLists ==
    { << Forecast(S_NWS, Lit(55, 1), Lit(2, 1)), Forecast(S_Unknown, Lit(70, 1), Lit(5, 1)) >>,
      << Forecast(S_ECMWF, Lit(56, 1), Lit(2, 1)) >> }

RaceCalls ==
    { [op |-> "combine", custom_weights |-> << >>] } \cup
    { [op |-> "combine_with_custom_weights", custom_weights |-> t] :
        t \in { << [key |-> S_NWS, weight |-> Lit(100, 1)],
                   [key |-> S_default, weight |-> Lit(1, 1)] >>,
                << >> } }

ThreadStart(call) ==
    [call |-> call,
     pc |-> IF call.op = "combine" THEN "filter" ELSE "save",
     original_weights |-> << >>,
     valid_forecasts |-> << >>,
     weights |-> << >>,
     result |-> NotCalled]

InitRace ==
    /\ configured = [weights |-> DEFAULT_WEIGHTS, min_std_dev |-> MIN_STD_DEV,
                     max_std_dev |-> MAX_STD_DEV]
    /\ combiner = configured
    /\ forecasts \in RaceLists
    /\ threads \in [Threads -> {ThreadStart(c) : c \in RaceCalls}]
    /\ last_call = NotCalled
    /\ result = NotCalled
    /\ first_result = NotCalled
    /\ custom_raised = FALSE
    /\ AdjusterIdle
    /\ CalculatorIdle
    /\ DetectorIdle

RaceFrame ==
    UNCHANGED <<configured, forecasts, last_call, result, first_result, custom_raised,
                adjusterVars, calculatorVars, detectorVars>>

\* Where a thread goes when combine() returns or raises.
ExitPc(th) == IF th.call.op = "combine" THEN "done" ELSE "restore"

\* original_weights = self.weights
SaveWeights(t) ==
    /\ threads[t].pc = "save"
    /\ threads' = [threads EXCEPT ![t].original_weights = combiner.weights, ![t].pc = "set"]
    /\ UNCHANGED combiner
    /\ RaceFrame

\* self.weights = custom_weights
SetWeights(t) ==
    /\ threads[t].pc = "set"
    /\ combiner' = [combiner EXCEPT !.weights = threads[t].call.custom_weights]
    /\ threads' = [threads EXCEPT ![t].pc = "filter"]
    /\ RaceFrame

\* combine(): the empty-list test and the filter
FilterForecasts(t) ==
    /\ threads[t].pc = "filter"
    /\ LET valid_forecasts == SelectSeq(forecasts, IsValidForecast)
       IN  threads' = IF valid_forecasts = << >>
                      THEN [threads EXCEPT ![t].result = None, ![t].pc = ExitPc(threads[t])]
                      ELSE [threads EXCEPT ![t].valid_forecasts = valid_forecasts,
                                           ![t].pc = "gw_in"]
    /\ UNCHANGED combiner
    /\ RaceFrame

\* The thread after get_weight returned w: the next forecast's lookup, or,
\* after the last one, the rest of combine(), which touches no shared state.
WithWeight(th, w) ==
    LET weights == Append(th.weights, w)
    IN  IF Len(weights) < Len(th.valid_forecasts)
        THEN [th EXCEPT !.weights = weights, !.pc = "gw_in"]
        ELSE [th EXCEPT !.weights = weights,
                        !.result = CombineWith(weights, th.valid_forecasts,
                                               combiner.min_std_dev, combiner.max_std_dev),
                        !.pc = ExitPc(th)]

CurrentSource(th) == th.valid_forecasts[Len(th.weights) + 1].source

\* get_weight: if source in self.weights
GetWeightTest(t) ==
    /\ threads[t].pc = "gw_in"
    /\ threads' = [threads EXCEPT ![t].pc =
                      IF DictHas(combiner.weights, CurrentSource(threads[t]))
                      THEN "gw_index" ELSE "gw_items"]
    /\ UNCHANGED combiner
    /\ RaceFrame

\* get_weight: return self.weights[source]; a KeyError leaves combine()
GetWeightIndex(t) ==
    /\ threads[t].pc = "gw_index"
    /\ LET th == threads[t]
       IN  threads' = [threads EXCEPT ![t] =
                          IF DictHas(combiner.weights, CurrentSource(th))
                          THEN WithWeight(th, DictIndex(combiner.weights, CurrentSource(th)))
                          ELSE [th EXCEPT !.result = Raise("KeyError"), !.pc = ExitPc(th)]]
    /\ UNCHANGED combiner
    /\ RaceFrame

\* get_weight: for key, weight in self.weights.items()
GetWeightItems(t) ==
    /\ threads[t].pc = "gw_items"
    /\ LET th   == threads[t]
           hits == PartialMatches(combiner.weights, CurrentSource(th))
       IN  threads' = [threads EXCEPT ![t] =
                          IF hits # {}
                          THEN WithWeight(th, combiner.weights[SetMin(hits)].weight)
                          ELSE [th EXCEPT !.pc = "gw_default"]]
    /\ UNCHANGED combiner
    /\ RaceFrame

\* get_weight: return self.weights.get("default", 1.0)
GetWeightDefault(t) ==
    /\ threads[t].pc = "gw_default"
    /\ threads' = [threads EXCEPT ![t] =
                      WithWeight(threads[t], DictGet(combiner.weights, S_default, Lit(1, 1)))]
    /\ UNCHANGED combiner
    /\ RaceFrame

\* finally: self.weights = original_weights
RestoreWeights(t) ==
    /\ threads[t].pc = "restore"
    /\ combiner' = [combiner EXCEPT !.weights =
                       RestoredWeights(threads[t].original_weights,
                                       threads[t].call.custom_weights)]
    /\ threads' = [threads EXCEPT ![t].pc = "done"]
    /\ RaceFrame

NextRace ==
    \E t \in Threads :
        \/ SaveWeights(t)
        \/ SetWeights(t)
        \/ FilterForecasts(t)
        \/ GetWeightTest(t)
        \/ GetWeightIndex(t)
        \/ GetWeightItems(t)
        \/ GetWeightDefault(t)
        \/ RestoreWeights(t)

SpecRace == InitRace /\ [][NextRace]_vars

\* ------------------------------------------------------------------------
\* The observation weight through the day: the clock advances a minute at
\* a time and the adjuster weighs the observation at each reading of it.
\* ------------------------------------------------------------------------

WeightAt(self, time) == _calculate_observation_weight(self, _calculate_hours_since_noon(time))

InitClock ==
    /\ CombinerIdle
    /\ CalculatorIdle
    /\ DetectorIdle
    /\ adjuster \in AdjusterConfigs
    /\ current_time = Midnight
    /\ observation_weight = WeightAt(adjuster, current_time)
    /\ adjusted = NotCalled
    /\ last_observation = NotCalled

Tick ==
    /\ current_time # [hour |-> 23, minute |-> 59]
    /\ current_time' = IF current_time.minute = 59
                       THEN [hour |-> current_time.hour + 1, minute |-> 0]
                       ELSE [current_time EXCEPT !.minute = @ + 1]
    /\ observation_weight' = WeightAt(adjuster, current_time')
    /\ UNCHANGED <<adjuster, adjusted, last_observation, combinerVars, calculatorVars,
                   detectorVars>>

NextClock == Tick

SpecClock == InitClock /\ [][NextClock]_vars

\* ------------------------------------------------------------------------
\* Combining, then adjusting with an observation
\* ------------------------------------------------------------------------

InitAdjust ==
    /\ configured = [weights |-> DEFAULT_WEIGHTS, min_std_dev |-> MIN_STD_DEV,
                     max_std_dev |-> MAX_STD_DEV]
    /\ combiner = configured
    /\ forecasts \in AdjustLists
    /\ last_call = NotCalled
    /\ result = NotCalled
    /\ first_result = NotCalled
    /\ custom_raised = FALSE
    /\ threads = << >>
    /\ adjuster \in AdjusterConfigs
    /\ current_time = Midnight
    /\ observation_weight = NotCalled
    /\ adjusted = NotCalled
    /\ last_observation = NotCalled
    /\ CalculatorIdle
    /\ DetectorIdle

\* adjuster.adjust(combined_forecast, observation, current_time) on the
\* forecast the combiner returned
CallAdjust ==
    /\ result.tag = "CombinedForecast"
    /\ \E observation \in Observations \cup {None}, time \in AdjustTimes :
          /\ current_time' = time
          /\ last_observation' = observation
          /\ adjusted' = adjust(adjuster, result, observation, time)
    /\ UNCHANGED <<adjuster, observation_weight, combinerVars, calculatorVars, detectorVars>>

NextAdjust == CallCombine \/ CallAdjust

SpecAdjust == InitAdjust /\ [][NextAdjust]_vars

\* ------------------------------------------------------------------------
\* Pricing brackets
\* ------------------------------------------------------------------------

InitBracket ==
    /\ CombinerIdle
    /\ AdjusterIdle
    /\ DetectorIdle
    /\ calculator \in CalculatorConfigs
    /\ probability = NotCalled
    /\ all_probabilities = NotCalled
    /\ contained = NotCalled

\* calculator.calculate_bracket_probability(bracket, mean, std_dev)
CallCalculateBracketProbability ==
    /\ \E bracket \in Brackets, mean \in Means, std_dev \in StdDevs :
          probability' = [bracket |-> bracket, mean |-> mean, std_dev |-> std_dev,
                          unclamped |-> UnclampedProbability(bracket, mean, std_dev),
                          prob |-> calculate_bracket_probability(calculator, bracket,
                                                                 mean, std_dev)]
    /\ UNCHANGED <<calculator, all_probabilities, contained, combinerVars, adjusterVars,
                   detectorVars>>

NextBracket == CallCalculateBracketProbability

SpecBracket == InitBracket /\ [][NextBracket]_vars

\* ------------------------------------------------------------------------
\* Pricing a list of brackets
\* ------------------------------------------------------------------------

InitAll ==
    /\ CombinerIdle
    /\ AdjusterIdle
    /\ DetectorIdle
    /\ calculator \in CalculatorConfigs
    /\ probability = NotCalled
    /\ all_probabilities = NotCalled
    /\ contained = NotCalled

\* calculator.calculate_all_probabilities(brackets, mean, std_dev)
CallCalculateAllProbabilities ==
    /\ \E brackets \in BracketLists, mean \in ListMeans, std_dev \in StdDevs :
          all_probabilities' =
              [brackets |-> brackets, mean |-> mean, std_dev |-> std_dev,
               returned |-> calculate_all_probabilities(calculator, brackets, mean, std_dev)]
    /\ UNCHANGED <<calculator, probability, contained, combinerVars, adjusterVars,
                   detectorVars>>

NextAll == CallCalculateAllProbabilities

SpecAll == InitAll /\ [][NextAll]_vars

\* ------------------------------------------------------------------------
\* Detecting edges
\* ------------------------------------------------------------------------

InitEdge ==
    /\ CombinerIdle
    /\ AdjusterIdle
    /\ CalculatorIdle
    /\ detector \in DetectorConfigs
    /\ analysis = NotCalled
    /\ confidence = NotCalled

\* detector.analyze(forecasts, observation, brackets, min_edge)
CallAnalyze ==
    /\ \E fs \in AnalyzeLists, observation \in AnalyzeObservations,
          brackets \in AnalyzeBrackets, min_edge \in MinEdges, now \in AnalyzeTimes :
          analysis' = [forecasts |-> fs, observation |-> observation, brackets |-> brackets,
                       min_edge |-> min_edge, now |-> now,
                       trace |-> analyze(detector, fs, observation, brackets, min_edge, now)]
    /\ UNCHANGED <<detector, confidence, combinerVars, adjusterVars, calculatorVars>>

NextEdge == CallAnalyze

SpecEdge == InitEdge /\ [][NextEdge]_vars

\* ------------------------------------------------------------------------
\* Scoring confidence
\* ------------------------------------------------------------------------

InitConfidence ==
    /\ CombinerIdle
    /\ AdjusterIdle
    /\ CalculatorIdle
    /\ DetectorIdle

\* detector._calculate_confidence(edge, std_dev)
CallCalculateConfidence ==
    /\ \E edge \in ConfidenceEdges, std_dev \in ConfidenceStdDevs :
          confidence' = [edge |-> edge, std_dev |-> std_dev,
                         returned |-> _calculate_confidence(detector, edge, std_dev)]
    /\ UNCHANGED <<detector, analysis, combinerVars, adjusterVars, calculatorVars>>

NextConfidence == CallCalculateConfidence

SpecConfidence == InitConfidence /\ [][NextConfidence]_vars

\* ------------------------------------------------------------------------
\* Settling brackets
\* ------------------------------------------------------------------------

InitContains ==
    /\ CombinerIdle
    /\ AdjusterIdle
    /\ CalculatorIdle
    /\ DetectorIdle

\* bracket.contains_temp(temp)
CallContainsTemp ==
    /\ \E bracket \in Brackets, temp \in Temps :
          contained' = [bracket |-> bracket, temp |-> temp,
                        returned |-> contains_temp(bracket, temp)]
    /\ UNCHANGED <<calculator, probability, all_probabilities, combinerVars, adjusterVars,
                   detectorVars>>

NextContains == CallContainsTemp

SpecContains == InitContains /\ [][NextContains]_vars

\* ------------------------------------------------------------------------
\* Properties of the ForecastCombiner
\* ------------------------------------------------------------------------

Called(op) == last_call # NotCalled /\ last_call.op = op

IsFiniteForecast(f) == IsFin(f.forecast_temp_f)

\* sum(d.values()) of a dict d given as a function
RECURSIVE SumValuesOver(_, _)
SumValuesOver(f, S) ==
    IF S = {} THEN Lit(0, 1)
    ELSE LET e == CHOOSE e \in S : TRUE
         IN  FAdd(SumValuesOver(f, S \ {e}), f[e])
SumValues(f) == SumValuesOver(f, DOMAIN f)

\* C3: between calls the combiner holds the weight table (and the std-dev
\* bounds) it was constructed with, whatever calls were made before and
\* whether they returned a forecast, returned None or raised; and every
\* combine(forecasts) returns exactly what the first combine(forecasts) of
\* the session returned.
C3_WeightsAreCallScoped ==
    /\ combiner = configured
    /\ Called("combine") => result = first_result

\* C3 witness: a combine that returned a forecast after a
\* combine_with_custom_weights call had raised.
C3_Witness ==
    /\ Called("combine")
    /\ custom_raised
    /\ result.tag = "CombinedForecast"

\* C4 (as claimed): whenever a call returns a CombinedForecast, the values
\* of its weights_used map sum to 1 (stated here for lists of finite means
\* only, where the weights are all that can go wrong).
C4_WeightsUsedSumToOne ==
    (/\ last_call # NotCalled
     /\ result.tag = "CombinedForecast"
     /\ \A i \in DOMAIN forecasts : IsFiniteForecast(forecasts[i]))
        => FEq(SumValues(result.weights_used), Lit(1, 1))

\* C5 (as claimed): combine keeps exactly the forecasts with a finite mean:
\* it returns None when there is none, and otherwise a forecast counted,
\* named and averaged over the finite ones only.
C5_NonFiniteMeansDropped ==
    Called("combine") =>
        LET finite == SelectSeq(forecasts, IsFiniteForecast)
        IN  IF finite = << >> THEN result = None
            ELSE /\ result.tag = "CombinedForecast"
                 /\ result.source_count = Len(finite)
                 /\ result.sources_used = [i \in DOMAIN finite |-> finite[i].source]
                 /\ IsFin(result.mean_temp_f)

\* C6: the std_dev of every CombinedForecast returned lies between the
\* combiner's min_std_dev and max_std_dev.
C6_StdDevWithinFloorAndCeiling ==
    (last_call # NotCalled /\ result.tag = "CombinedForecast") =>
        /\ FGe(result.std_dev, combiner.min_std_dev)
        /\ FLe(result.std_dev, combiner.max_std_dev)

\* C6 witness: two sources that each claim half a degree of uncertainty or
\* less come out at the floor.
C6_Witness ==
    /\ Called("combine")
    /\ result.tag = "CombinedForecast"
    /\ FLt(result.pre_clamp_variance, FMul(combiner.min_std_dev, combiner.min_std_dev))
    /\ result.std_dev = combiner.min_std_dev

\* ------------------------------------------------------------------------
\* Properties of concurrent use
\* ------------------------------------------------------------------------

\* The table a call is meant to compute with.
IntendedWeights(call) ==
    IF call.op = "combine" THEN configured.weights ELSE call.custom_weights

\* C2 (as claimed): whatever the interleaving, a call that has finished
\* returned what combine() returns under the table meant for it (the
\* configured table for combine, the override for
\* combine_with_custom_weights), and once both calls have finished the
\* combiner holds the configured table again.
C2_ConcurrentCallsKeepTheirWeights ==
    /\ \A t \in DOMAIN threads :
          threads[t].pc = "done" =>
              threads[t].result = Combine(IntendedWeights(threads[t].call),
                                          configured.min_std_dev, configured.max_std_dev,
                                          forecasts)
    /\ (\A t \in DOMAIN threads : threads[t].pc = "done") => combiner = configured

\* ------------------------------------------------------------------------
\* Properties of the ObservationAdjuster
\* ------------------------------------------------------------------------

Noon == [hour |-> 12, minute |-> 0]

AtOrBefore(t1, t2) == t1.hour < t2.hour \/ (t1.hour = t2.hour /\ t1.minute <= t2.minute)

\* C1 (as claimed): every AdjustedForecast returned for an observation with
\* at least one reading has mean_temp_f >= observation.observed_high_f,
\* whatever the combined forecast and the time of day.
C1_MeanAtLeastObservedHigh ==
    (adjusted # NotCalled /\ adjusted.observation # None) =>
        FGe(adjusted.mean_temp_f, adjusted.observation.observed_high_f)

\* C7 (as claimed): with the default ceiling, the observation weight is
\* strictly below max_observation_weight at every time of day.
C7_WeightStrictlyBelowCeiling ==
    adjuster = DefaultAdjuster =>
        FLt(observation_weight, adjuster.max_observation_weight)

\* C7 (amended): with the default ceiling, the observation weight is at
\* most max_observation_weight at every time of day, and equals it from
\* 8 hours after noon (20:00) to the end of the day.
C7_WeightReachesCeiling ==
    adjuster = DefaultAdjuster =>
        /\ FLe(observation_weight, adjuster.max_observation_weight)
        /\ current_time.hour >= 20 => FEq(observation_weight, adjuster.max_observation_weight)

\* C7 witness: 20:00 under the default ceiling, the weight at 0.95.
C7_Witness ==
    /\ adjuster = DefaultAdjuster
    /\ current_time = [hour |-> 20, minute |-> 0]
    /\ observation_weight = MAX_OBSERVATION_WEIGHT

\* C8: with the default ceiling, the observation weight is 0 at every time
\* at or before noon, is 0.3 at noon+2h and 0.8 at noon+4h, and never
\* decreases as the clock advances to the end of the day.
C8_WeightMonotoneFromZero ==
    /\ [](adjuster = DefaultAdjuster =>
            /\ AtOrBefore(current_time, Noon) => observation_weight = Lit(0, 1)
            /\ current_time = [hour |-> 14, minute |-> 0] => observation_weight = Lit(3, 10)
            /\ current_time = [hour |-> 16, minute |-> 0] => observation_weight = Lit(4, 5))
    /\ [][adjuster = DefaultAdjuster => FGe(observation_weight', observation_weight)]_vars

\* C8 witness: the clock has crossed the breakpoint at noon+2h, where the
\* weight is 0.3.
C8_Witness ==
    /\ adjuster = DefaultAdjuster
    /\ current_time = [hour |-> 14, minute |-> 0]
    /\ observation_weight = Lit(3, 10)

\* ------------------------------------------------------------------------
\* Properties of the BracketProbabilityCalculator
\* ------------------------------------------------------------------------

BracketTypes == {"between", "greater_than", "less_than"}

\* C9 (as claimed): a bracket whose bracket_type is none of BETWEEN,
\* GREATER_THAN, LESS_THAN is given probability 0.
C9_UnknownTypeIsZero ==
    (probability # NotCalled /\ probability.bracket.bracket_type \notin BracketTypes) =>
        FEq(probability.prob, Lit(0, 1))

\* C9 (amended): a bracket whose bracket_type is none of BETWEEN,
\* GREATER_THAN, LESS_THAN is given the calculator's min_prob (0.001 by
\* default), the clamped 0, whatever the mean and std-dev; nothing is
\* raised.
C9_UnknownTypeIsMinProb ==
    (probability # NotCalled /\ probability.bracket.bracket_type \notin BracketTypes) =>
        FEq(probability.prob, calculator.min_prob)

\* C9 witness: a bracket of unknown type priced by the default calculator.
C9_Witness ==
    /\ probability # NotCalled
    /\ probability.bracket.bracket_type \notin BracketTypes
    /\ calculator = DefaultCalculator
    /\ probability.prob = Lit(1, 1000)

\* C10: every probability returned lies in [min_prob, max_prob], for every
\* bracket, mean and std-dev (std-dev <= 0, nan and BETWEEN brackets with
\* lower above upper included).
C10_ProbabilityWithinClamp ==
    probability # NotCalled =>
        /\ FGe(probability.prob, calculator.min_prob)
        /\ FLe(probability.prob, calculator.max_prob)

\* C10 witness: a BETWEEN bracket with lower above upper under a std-dev
\* <= 0 straddling the mean, whose difference of CDFs is -1, comes out at
\* min_prob.
C10_Witness ==
    /\ probability # NotCalled
    /\ probability.bracket.bracket_type = "between"
    /\ FGt(probability.bracket.lower_bound, probability.bracket.upper_bound)
    /\ FLe(probability.std_dev, Lit(0, 1))
    /\ FEq(UnclampedProbability(probability.bracket, probability.mean, probability.std_dev),
           Lit(-1, 1))
    /\ probability.prob = calculator.min_prob

\* The normal CDF of the priced mean and std-dev, at x.
CDF(x) == normal_cdf(x, probability.mean, probability.std_dev)

Half == Lit(1, 2)

\* C12: before clamping, a BETWEEN[lower, upper] bracket is priced at
\* CDF(upper + 0.5) - CDF(lower - 0.5), a GREATER_THAN bracket at
\* 1 - CDF(lower_bound + 0.5) and a LESS_THAN bracket at
\* CDF(upper_bound - 0.5), and what is returned is that value clamped.
C12_PreClampFormulas ==
    probability # NotCalled =>
        LET b == probability.bracket
        IN  /\ b.bracket_type = "between" =>
                  probability.unclamped = FSub(CDF(FAdd(b.upper_bound, Half)),
                                               CDF(FSub(b.lower_bound, Half)))
            /\ b.bracket_type = "greater_than" =>
                  probability.unclamped = FSub(Lit(1, 1), CDF(FAdd(b.lower_bound, Half)))
            /\ b.bracket_type = "less_than" =>
                  probability.unclamped = CDF(FSub(b.upper_bound, Half))
            /\ probability.prob = _clamp_probability(calculator, probability.unclamped)

\* A BETWEEN bracket one degree wide priced under a mean at its centre: all
\* of its probability comes from the two half degrees.
C12_Witness ==
    /\ probability # NotCalled
    /\ probability.bracket = MarketBracket("between", Lit(55, 1), Lit(55, 1))
    /\ probability.mean = Lit(55, 1)
    /\ probability.std_dev = Lit(2, 1)
    /\ FGt(probability.unclamped, Lit(1, 10))
    /\ FLt(probability.unclamped, Lit(3, 10))
    /\ probability.prob = probability.unclamped

\* C20: an adjust call given no observation, or one without readings,
\* returns at every time of day the combined forecast's mean, std-dev, low
\* and high, with observation_weight 0, forecast_weight 1, and None for the
\* observation and the observed high.
C20_NoObservationPassesThrough ==
    (adjusted # NotCalled
        /\ (last_observation = None \/ last_observation.readings = << >>)) =>
        /\ adjusted.mean_temp_f = result.mean_temp_f
        /\ adjusted.std_dev = result.std_dev
        /\ adjusted.low_f = result.low_f
        /\ adjusted.high_f = result.high_f
        /\ adjusted.observation_weight = Lit(0, 1)
        /\ adjusted.forecast_weight = Lit(1, 1)
        /\ adjusted.observation = None
        /\ adjusted.observed_high_f = None

\* An observation without readings was passed in late in the evening, when
\* an observation with readings would carry the ceiling weight.
C20_Witness ==
    /\ adjusted # NotCalled
    /\ last_observation # None
    /\ last_observation.readings = << >>
    /\ current_time.hour >= 21
    /\ IsFin(result.mean_temp_f)
    /\ adjusted.observation = None
    /\ adjusted.mean_temp_f = result.mean_temp_f

\* C13: contains_temp(t) is true exactly when lower <= t <= upper for a
\* BETWEEN bracket, t > lower_bound for a GREATER_THAN bracket and
\* t < upper_bound for a LESS_THAN bracket; the threshold of a GREATER_THAN
\* or LESS_THAN bracket never settles it, and both ends of a BETWEEN
\* bracket [lower, upper] settle it.
C13_ContainsTempExact ==
    contained # NotCalled =>
        LET b == contained.bracket
            t == contained.temp
        IN  /\ b.bracket_type = "between" =>
                  /\ contained.returned <=> (FLe(b.lower_bound, t) /\ FLe(t, b.upper_bound))
                  /\ (FLe(b.lower_bound, b.upper_bound) /\ t \in {b.lower_bound, b.upper_bound})
                        => contained.returned
            /\ b.bracket_type = "greater_than" =>
                  /\ contained.returned <=> FGt(t, b.lower_bound)
                  /\ t = b.lower_bound => ~contained.returned
            /\ b.bracket_type = "less_than" =>
                  /\ contained.returned <=> FLt(t, b.upper_bound)
                  /\ t = b.upper_bound => ~contained.returned

\* BETWEEN[54, 56] asked about 56.0, its upper end, and settled by it.
C13_Witness ==
    /\ contained # NotCalled
    /\ contained.bracket = MarketBracket("between", Lit(54, 1), Lit(56, 1))
    /\ contained.temp = Lit(56, 1)
    /\ contained.returned

\* LESS_THAN(a), BETWEEN(a, b1), BETWEEN(b1 + 1, b2), ..., GREATER_THAN(bn)
IsCompletePartition(bs) ==
    /\ Len(bs) >= 3
    /\ bs[1].bracket_type = "less_than"
    /\ bs[Len(bs)].bracket_type = "greater_than"
    /\ \A i \in 2..(Len(bs) - 1) : bs[i].bracket_type = "between"
    /\ bs[2].lower_bound = bs[1].upper_bound
    /\ \A i \in 2..(Len(bs) - 2) : bs[i + 1].lower_bound = FAdd(bs[i].upper_bound, Lit(1, 1))
    /\ bs[Len(bs)].lower_bound = bs[Len(bs) - 1].upper_bound

\* sum(bp.model_prob for bp in results)
TotalModelProb(results) == FSum([i \in 1..Len(results) |-> results[i].model_prob])

WithinTwoPercentOfOne(total) == FLe(FAbs(FSub(total, Lit(1, 1))), Lit(2, 100))

\* C11: for every complete partition of the whole-degree temperatures and
\* every mean and std-dev, the model probabilities calculate_all_probabilities
\* returns sum to 1.0 within 0.02.
C11_PartitionSumsToOne ==
    (all_probabilities # NotCalled /\ IsCompletePartition(all_probabilities.brackets)) =>
        WithinTwoPercentOfOne(TotalModelProb(all_probabilities.returned))

\* ------------------------------------------------------------------------
\* Properties of the EdgeDetector
\* ------------------------------------------------------------------------

\* The last analyze call got as far as pricing the brackets.
Priced == analysis # NotCalled /\ analysis.trace.model_probs # NotCalled

\* The returned signals for bracket i in the given direction.
SignalsFor(i, direction) ==
    { k \in DOMAIN analysis.trace.returned :
        /\ analysis.trace.returned[k].bracket = analysis.brackets[i]
        /\ analysis.trace.returned[k].direction = direction }

Cents(c) == FDiv(Lit(c, 1), Lit(100, 1))

\* cost / (1 - fee_rate)
WithFee(cost) == FDiv(cost, FSub(Lit(1, 1), detector.fee_rate))

\* model_prob - (ask/100) / (1 - fee_rate) of bracket i
LongEdge(i) ==
    FSub(analysis.trace.model_probs[i].model_prob, WithFee(Cents(analysis.brackets[i].yes_ask)))

\* (1 - model_prob) - (1 - bid/100) / (1 - fee_rate) of bracket i
ShortEdge(i) ==
    FSub(FSub(Lit(1, 1), analysis.trace.model_probs[i].model_prob),
         WithFee(FSub(Lit(1, 1), Cents(analysis.brackets[i].yes_bid))))

StrictlyInsideUnit(x) == FLt(Lit(0, 1), x) /\ FLt(x, Lit(1, 1))

\* C14: analyze emits a YES signal for a bracket if and only if
\* 0 < ask/100 < 1 and model_prob - (ask/100)/(1 - fee_rate) > min_edge; the
\* signal's edge is that difference; a bracket with ask 0 or ask 100 never
\* yields a YES signal.
C14_YesSignalIffEdge ==
    Priced =>
        \A i \in DOMAIN analysis.brackets :
            /\ (SignalsFor(i, "YES") # {}) <=>
                    (/\ StrictlyInsideUnit(Cents(analysis.brackets[i].yes_ask))
                     /\ FGt(LongEdge(i), analysis.min_edge))
            /\ Cardinality(SignalsFor(i, "YES")) <= 1
            /\ \A k \in SignalsFor(i, "YES") : analysis.trace.returned[k].edge = LongEdge(i)
            /\ analysis.brackets[i].yes_ask \in {0, 100} => SignalsFor(i, "YES") = {}

\* A market where one bracket yields a YES signal, a bracket with a valid
\* ask falls short of min_edge, and a bracket quoted at ask 0 has a model
\* probability above min_edge and yields none.
C14_Witness ==
    /\ Priced
    /\ IsFin(analysis.trace.adjusted.mean_temp_f)
    /\ \E i \in DOMAIN analysis.brackets : SignalsFor(i, "YES") # {}
    /\ \E i \in DOMAIN analysis.brackets :
          /\ StrictlyInsideUnit(Cents(analysis.brackets[i].yes_ask))
          /\ ~FGt(LongEdge(i), analysis.min_edge)
          /\ SignalsFor(i, "YES") = {}
    /\ \E i \in DOMAIN analysis.brackets :
          /\ analysis.brackets[i].yes_ask = 0
          /\ FGt(analysis.trace.model_probs[i].model_prob, analysis.min_edge)
          /\ SignalsFor(i, "YES") = {}

\* C15: analyze emits a NO signal for a bracket if and only if
\* 0 < 1 - bid/100 < 1 and (1 - model_prob) - (1 - bid/100)/(1 - fee_rate)
\* > min_edge; the signal's edge is that difference; a bracket with bid 0 or
\* bid 100 never yields a NO signal.
C15_NoSignalIffEdge ==
    Priced =>
        \A i \in DOMAIN analysis.brackets :
            /\ (SignalsFor(i, "NO") # {}) <=>
                    (/\ StrictlyInsideUnit(FSub(Lit(1, 1), Cents(analysis.brackets[i].yes_bid)))
                     /\ FGt(ShortEdge(i), analysis.min_edge))
            /\ Cardinality(SignalsFor(i, "NO")) <= 1
            /\ \A k \in SignalsFor(i, "NO") : analysis.trace.returned[k].edge = ShortEdge(i)
            /\ analysis.brackets[i].yes_bid \in {0, 100} => SignalsFor(i, "NO") = {}

\* A market where an overpriced bracket yields a NO signal, a bracket with
\* a valid bid falls short, and a bracket quoted at bid 100 whose NO
\* probability is above min_edge yields none.
C15_Witness ==
    /\ Priced
    /\ IsFin(analysis.trace.adjusted.mean_temp_f)
    /\ \E i \in DOMAIN analysis.brackets : SignalsFor(i, "NO") # {}
    /\ \E i \in DOMAIN analysis.brackets :
          /\ StrictlyInsideUnit(FSub(Lit(1, 1), Cents(analysis.brackets[i].yes_bid)))
          /\ ~FGt(ShortEdge(i), analysis.min_edge)
          /\ SignalsFor(i, "NO") = {}
    /\ \E i \in DOMAIN analysis.brackets :
          /\ analysis.brackets[i].yes_bid = 100
          /\ FGt(FSub(Lit(1, 1), analysis.trace.model_probs[i].model_prob), analysis.min_edge)
          /\ SignalsFor(i, "NO") = {}

\* Where a signal was generated: brackets in input order, the YES check of
\* a bracket before its NO check.
GenerationOrder(s) ==
    2 * (CHOOSE i \in DOMAIN analysis.brackets : analysis.brackets[i] = s.bracket)
      + (IF s.direction = "YES" THEN 0 ELSE 1)

\* C16: the list analyze returns is ordered by non-increasing edge, and
\* signals of equal edge keep their generation order.
C16_SortedByEdgeStable ==
    analysis # NotCalled =>
        LET returned == analysis.trace.returned
        IN  /\ \A k \in 1..(Len(returned) - 1) : FGe(returned[k].edge, returned[k + 1].edge)
            /\ \A k, l \in DOMAIN returned :
                  (k < l /\ FEq(returned[k].edge, returned[l].edge)) =>
                      GenerationOrder(returned[k]) < GenerationOrder(returned[l])
            /\ Len(returned) = Len(analysis.trace.signals)
            /\ \A k \in DOMAIN returned :
                  \E j \in DOMAIN returned : analysis.trace.signals[j] = returned[k]

\* Three signals: the one generated last has the largest edge and comes
\* first, the other two have equal edge and stay in bracket order.
C16_Witness ==
    /\ analysis # NotCalled
    /\ Len(analysis.trace.returned) = 3
    /\ GenerationOrder(analysis.trace.returned[1]) > GenerationOrder(analysis.trace.returned[2])
    /\ FGt(analysis.trace.returned[1].edge, analysis.trace.returned[2].edge)
    /\ FEq(analysis.trace.returned[2].edge, analysis.trace.returned[3].edge)
    /\ analysis.trace.returned[2].bracket # analysis.trace.returned[3].bracket

\* C17: analyze returns an empty list without raising whenever the forecast
\* list is empty, the bracket list is empty, or every forecast has a
\* non-finite mean; no adjustment or bracket probability is then computed.
C17_EmptyOnDegenerateInput ==
    (analysis # NotCalled
        /\ \/ analysis.forecasts = << >>
           \/ analysis.brackets = << >>
           \/ \A i \in DOMAIN analysis.forecasts : ~IsFiniteForecast(analysis.forecasts[i])) =>
        /\ analysis.trace.returned = << >>
        /\ analysis.trace.adjusted = NotCalled
        /\ analysis.trace.model_probs = NotCalled

\* What a detector with the given fee rate returns for the inputs of the
\* last analyze call.
ReturnedUnderFee(fee_rate) ==
    analyze([fee_rate |-> fee_rate], analysis.forecasts, analysis.observation,
            analysis.brackets, analysis.min_edge, analysis.now).returned

SameTrade(s, t) == s.bracket = t.bracket /\ s.direction = t.direction

\* C18: for the same forecasts, observation, brackets and min_edge and two
\* fee rates f1 < f2 in [0, 1), every signal emitted under f2 is emitted
\* under f1 for the same bracket and direction, with a strictly larger edge.
C18_HigherFeeFewerSmallerSignals ==
    analysis # NotCalled =>
        \A other \in DetectorConfigs :
            FLt(other.fee_rate, detector.fee_rate) =>
                \A k \in DOMAIN analysis.trace.returned :
                    LET s2 == analysis.trace.returned[k]
                        r1 == ReturnedUnderFee(other.fee_rate)
                    IN  \E j \in DOMAIN r1 :
                            /\ SameTrade(r1[j], s2)
                            /\ FLt(s2.edge, r1[j].edge)

\* Under a fee rate of 0.5 signals are still emitted, and fewer of them
\* than under the default fee rate for the same inputs.
C18_Witness ==
    /\ analysis # NotCalled
    /\ detector.fee_rate = Lit(1, 2)
    /\ analysis.trace.returned # << >>
    /\ IsFin(analysis.trace.adjusted.mean_temp_f)
    /\ Len(analysis.trace.returned) < Len(ReturnedUnderFee(KALSHI_FEE_RATE))

\* 0.5 + (edge - 0.05) / 0.15 * 0.5
EdgeRamp(edge) ==
    FAdd(FMul(FDiv(FSub(edge, Lit(5, 100)), Lit(15, 100)), Lit(1, 2)), Lit(1, 2))

\* 1.0 - (std_dev - 1.5) / 3.5 * 0.5
UncertaintyRamp(std_dev) ==
    FSub(Lit(1, 1), FMul(FDiv(FSub(std_dev, Lit(3, 2)), Lit(7, 2)), Lit(1, 2)))

Average(a, b) == FDiv(FAdd(a, b), Lit(2, 1))

\* C19 as stated: the confidence is the average of an edge score that is
\* 0.5 for edge <= 0.05, rises linearly to 1.0 at edge 0.20 and is 1.0
\* above, and an uncertainty score that is 1.0 for std-dev <= 1.5, falls
\* linearly to 0.5 at std-dev 5.0 and is 0.5 above.
C19_ScoresClampedToHalf ==
    confidence # NotCalled =>
        LET edge    == confidence.edge
            std_dev == confidence.std_dev
            es == IF FLe(edge, Lit(5, 100)) THEN Lit(1, 2)
                  ELSE IF FGe(edge, Lit(2, 10)) THEN Lit(1, 1)
                  ELSE EdgeRamp(edge)
            us == IF FLe(std_dev, Lit(3, 2)) THEN Lit(1, 1)
                  ELSE IF FGe(std_dev, Lit(5, 1)) THEN Lit(1, 2)
                  ELSE UncertaintyRamp(std_dev)
        IN  confidence.returned = Average(es, us)

\* C19, amended: the two ramps run on outside [0.05, 0.20] and [1.5, 5.0]
\* and the scores are clamped to [0, 1]: the edge score is 0 for
\* edge <= -0.10 (and for a nan edge), 0.5 at 0.05 and 1.0 from 0.20; the
\* uncertainty score is 1.0 up to std-dev 1.5 (and for a nan std-dev), 0.5
\* at 5.0 and 0 from 8.5.
C19_ScoresClampedToUnit ==
    confidence # NotCalled =>
        LET edge    == confidence.edge
            std_dev == confidence.std_dev
            es == IF IsNaN(edge) \/ FLe(edge, Lit(-1, 10)) THEN Lit(0, 1)
                  ELSE IF FGe(edge, Lit(2, 10)) THEN Lit(1, 1)
                  ELSE EdgeRamp(edge)
            us == IF IsNaN(std_dev) \/ FLe(std_dev, Lit(3, 2)) THEN Lit(1, 1)
                  ELSE IF FGe(std_dev, Lit(17, 2)) THEN Lit(0, 1)
                  ELSE UncertaintyRamp(std_dev)
        IN  /\ confidence.returned = Average(es, us)
            /\ edge = Lit(5, 100) => es = Lit(1, 2)
            /\ std_dev = Lit(5, 1) => us = Lit(1, 2)
            /\ FGe(confidence.returned, Lit(0, 1)) /\ FLe(confidence.returned, Lit(1, 1))

\* An edge of 0 scored under a std-dev of 6: both scores are below 0.5.
C19_Witness ==
    /\ confidence # NotCalled
    /\ confidence.edge = Lit(0, 1)
    /\ confidence.std_dev = Lit(6, 1)
    /\ FLt(confidence.returned, Lit(1, 2))
    /\ FGt(confidence.returned, Lit(0, 1))

\* ------------------------------------------------------------------------
\* Further properties of the ObservationAdjuster
\* ------------------------------------------------------------------------

\* C21: every AdjustedForecast adjust returns, with or without an
\* observation, has std_dev at or above the adjuster's min_std_dev.
C21_StdDevAtLeastFloor ==
    adjusted # NotCalled => FGe(adjusted.std_dev, adjuster.min_std_dev)

\* The last adjust call used an observation while the forecast dominates.
ForecastDominant ==
    /\ adjusted # NotCalled
    /\ adjusted.observation # None
    /\ FLe(adjusted.observation_weight, Lit(1, 2))

\* The distance between the observed high and the blended mean.
Disagreement(a) == FAbs(FSub(a.mean_temp_f, a.observed_high_f))

\* What the last adjust call would have returned for another observation.
AdjustedFor(other) == adjust(adjuster, result, other, current_time)

\* C22: in the forecast-dominant regime, for the same forecast std-dev, an
\* observation closer to the blended mean never yields a larger adjusted
\* std-dev than one farther from it, and the std-dev is shrunk by at most
\* 20%.
C22_CloserAgreementShrinksMore ==
    ForecastDominant =>
        /\ \A other \in Observations :
              (other.readings # << >>
                  /\ FLt(Disagreement(AdjustedFor(other)), Disagreement(adjusted))) =>
                  FLe(AdjustedFor(other).std_dev, adjusted.std_dev)
        /\ FGe(adjusted.std_dev, FMul(Lit(4, 5), result.std_dev))
        /\ FLe(adjusted.std_dev, PyMax(adjuster.min_std_dev, result.std_dev))

\* ------------------------------------------------------------------------
\* Further properties of the ForecastCombiner
\* ------------------------------------------------------------------------

\* The weight table in force during the last call.
TableInForce ==
    IF last_call.op = "combine" THEN configured.weights ELSE last_call.custom_weights

TableWeight(f) == get_weight(TableInForce, f.source)

\* The forecasts of the last call that survived the filter.
Surviving == SelectSeq(forecasts, IsValidForecast)

Combined == last_call # NotCalled /\ result.tag = "CombinedForecast"

\* Two surviving forecasts with finite means, equal table weight and equal
\* std-dev were combined.
EqualPair ==
    /\ Combined
    /\ Len(Surviving) = 2
    /\ IsFin(Surviving[1].forecast_temp_f) /\ IsFin(Surviving[2].forecast_temp_f)
    /\ TableWeight(Surviving[1]) = TableWeight(Surviving[2])
    /\ Surviving[1].std_dev = Surviving[2].std_dev

\* s^2 + (d/2)^2
PairVariance ==
    LET s == Surviving[1].std_dev
        d == FSub(Surviving[1].forecast_temp_f, Surviving[2].forecast_temp_f)
    IN  FAdd(FMul(s, s), FMul(FDiv(d, Lit(2, 1)), FDiv(d, Lit(2, 1))))

\* C23: for two forecasts of equal table weight, equal std-dev s and means
\* d apart, the variance before the clamp is s^2 + (d/2)^2, and std_dev is
\* its square root whenever that lies inside [min_std_dev, max_std_dev].
C23_PairVarianceFormula ==
    EqualPair =>
        /\ result.pre_clamp_variance = PairVariance
        /\ (FGe(FSqrt(PairVariance), combiner.min_std_dev)
                /\ FLe(FSqrt(PairVariance), combiner.max_std_dev)) =>
              result.std_dev = FSqrt(PairVariance)

\* Two sources a degree apart, both with std-dev 2 and the same weight:
\* the variance is 4.25 and its root is returned unclamped.
C23_Witness ==
    /\ EqualPair
    /\ Surviving[1].source # Surviving[2].source
    /\ FAbs(FSub(Surviving[1].forecast_temp_f, Surviving[2].forecast_temp_f)) = Lit(1, 1)
    /\ result.pre_clamp_variance = Lit(17, 4)
    /\ FGt(result.std_dev, Lit(2, 1))
    /\ FLt(result.std_dev, Lit(21, 10))

SurvivingWeights == [i \in DOMAIN Surviving |-> TableWeight(Surviving[i])]

\* sum(weight_i * mean_i) / sum(weight_i) over the surviving forecasts
WeightedAverage ==
    FDiv(FSum([i \in DOMAIN Surviving |->
                 FMul(SurvivingWeights[i], Surviving[i].forecast_temp_f)]),
         FSum(SurvivingWeights))

\* C24: the combined mean is the table-weighted average of the surviving
\* means; two forecasts of equal weight at a and b give (a + b) / 2.
C24_WeightedMean ==
    Combined =>
        /\ result.mean_temp_f = WeightedAverage
        /\ (Len(Surviving) = 2 /\ SurvivingWeights[1] = SurvivingWeights[2]) =>
              result.mean_temp_f =
                  FDiv(FAdd(Surviving[1].forecast_temp_f, Surviving[2].forecast_temp_f),
                       Lit(2, 1))

\* NWS (weight 5) at 55 and ECMWF (weight 4) at 56 combine to 499/9.
C24_Witness ==
    /\ Combined
    /\ Len(Surviving) = 2
    /\ SurvivingWeights = <<Lit(5, 1), Lit(4, 1)>>
    /\ Surviving[1].forecast_temp_f = Lit(55, 1)
    /\ Surviving[2].forecast_temp_f = Lit(56, 1)
    /\ result.mean_temp_f = Lit(499, 9)

\* adjust used an observation at a time before local noon.
UsedBeforeNoon ==
    /\ adjusted # NotCalled
    /\ adjusted.observation # None
    /\ FLt(_calculate_hours_since_noon(current_time), Lit(0, 1))

\* C25 as stated: before local noon an observation with readings leaves the
\* forecast alone: observation_weight is 0 and the mean is the combined
\* forecast's mean.
C25_MorningIsPureForecast ==
    UsedBeforeNoon =>
        /\ adjusted.observation_weight = Lit(0, 1)
        /\ adjusted.mean_temp_f = result.mean_temp_f

\* C25: before local noon observation_weight is 0, forecast_weight is 1 and
\* the mean is the combined forecast's mean floored at the observed high.
C25_MorningMeanFlooredAtObserved ==
    UsedBeforeNoon =>
        /\ adjusted.observation_weight = Lit(0, 1)
        /\ adjusted.forecast_weight = Lit(1, 1)
        /\ adjusted.mean_temp_f = PyMax(result.mean_temp_f, adjusted.observed_high_f)
        /\ FLe(adjusted.observed_high_f, result.mean_temp_f) =>
               adjusted.mean_temp_f = result.mean_temp_f

\* A morning reading of 58 against a forecast of 55 moves the mean to 58.
C25_Witness ==
    /\ UsedBeforeNoon
    /\ result.mean_temp_f = Lit(55, 1)
    /\ adjusted.observed_high_f = Lit(58, 1)
    /\ adjusted.observation_weight = Lit(0, 1)
    /\ adjusted.mean_temp_f = Lit(58, 1)

\* C26: at every time of day the observation weight lies between 0 and
\* the adjuster's max_observation_weight, for a ceiling in [0, 1).
C26_WeightWithinCeiling ==
    (observation_weight # NotCalled
        /\ FGe(adjuster.max_observation_weight, Lit(0, 1))
        /\ FLt(adjuster.max_observation_weight, Lit(1, 1))) =>
            /\ FGe(observation_weight, Lit(0, 1))
            /\ FLe(observation_weight, adjuster.max_observation_weight)

\* ------------------------------------------------------------------------
\* Looking up the weight of a source
\* ------------------------------------------------------------------------

\* self.weights = weights or DEFAULT_WEIGHTS.copy()
WeightsOrDefault(weights) == IF weights = << >> THEN DEFAULT_WEIGHTS ELSE weights

\* Tables a combiner is constructed with for the lookups: the default
\* table, the table of test_custom_weights, a table without a default entry
\* whose keys differ only in case, a table that lists GFS before GFS+HRRR
\* and puts the default entry first, and the empty table.
WeightTables ==
    { DEFAULT_WEIGHTS,
      << [key |-> S_MyModel, weight |-> Lit(10, 1)],
         [key |-> S_default, weight |-> Lit(1, 2)] >>,
      << [key |-> Lower(S_NWS), weight |-> Lit(7, 1)],
         [key |-> S_NWS,        weight |-> Lit(5, 1)] >>,
      << [key |-> S_default, weight |-> Lit(9, 1)],
         [key |-> S_GFS,     weight |-> Lit(5, 2)],
         [key |-> S_GFSHRRR, weight |-> Lit(3, 1)] >>,
      << >> }

\* Longest prefix of a source name used as a source name of its own.
MaxPrefix == 2

\* "Open-Meteo GFS+HRRR"
S_OpenMeteoGFSHRRR == SubSeq(S_BestMatch, 1, 11) \o S_GFSHRRR

\* Source names looked up: the names of the tables and of the tests, the
\* same in lower case, and their prefixes (the empty string among them).
SourceNames ==
    LET named == {S_NWS, S_ECMWF, S_BestMatch, S_GFSHRRR, S_GFS, S_HRRR, S_Ensemble,
                  S_default, S_Unknown, S_Bad, S_MyModel, S_OpenMeteoGFSHRRR}
    IN  named \cup {Lower(s) : s \in named}
              \cup {SubSeq(s, 1, k) : s \in named, k \in 0..MaxPrefix}

InitWeight ==
    /\ configured \in [weights : WeightTables, min_std_dev : {MIN_STD_DEV},
                        max_std_dev : {MAX_STD_DEV}]
    /\ combiner = [configured EXCEPT !.weights = WeightsOrDefault(@)]
    /\ forecasts = << >>
    /\ last_call = NotCalled
    /\ result = NotCalled
    /\ first_result = NotCalled
    /\ custom_raised = FALSE
    /\ threads = << >>
    /\ AdjusterIdle
    /\ CalculatorIdle
    /\ DetectorIdle

\* combiner.get_weight(source)
CallGetWeight ==
    /\ \E source \in SourceNames :
          /\ last_call' = [op |-> "get_weight", source |-> source]
          /\ result' = [tag |-> "Weight", weight |-> get_weight(combiner.weights, source)]
    /\ UNCHANGED <<configured, combiner, forecasts, first_result, custom_raised, threads>>
    /\ UNCHANGED <<adjusterVars, calculatorVars, detectorVars>>

NextWeight == CallGetWeight

SpecWeight == InitWeight /\ [][NextWeight]_vars

LookedUp == last_call # NotCalled /\ last_call.op = "get_weight"

\* Positions of the table whose key is the source name itself.
ExactKeys == {i \in DOMAIN combiner.weights : combiner.weights[i].key = last_call.source}

\* Positions of the table whose key, case aside, contains the source name
\* or is contained in it.
SubstringKeys ==
    {i \in DOMAIN combiner.weights :
        \/ StrIn(Lower(combiner.weights[i].key), Lower(last_call.source))
        \/ StrIn(Lower(last_call.source), Lower(combiner.weights[i].key))}

\* The table's "default" entry, 1.0 without one.
DefaultWeight ==
    IF \E i \in DOMAIN combiner.weights : combiner.weights[i].key = S_default
    THEN combiner.weights[CHOOSE i \in DOMAIN combiner.weights :
                              combiner.weights[i].key = S_default].weight
    ELSE Lit(1, 1)

\* C27: an exact key gives the weight whatever substring matches come
\* before it; without one the first key in table order that contains or is
\* contained in the source name, case aside, gives it; without any, the
\* default weight.
C27_LookupOrder ==
    LookedUp =>
        /\ \A i \in ExactKeys : result.weight = combiner.weights[i].weight
        /\ ExactKeys = {} =>
              \A i \in SubstringKeys :
                  (\A j \in SubstringKeys : i <= j) => result.weight = combiner.weights[i].weight
        /\ (ExactKeys = {} /\ SubstringKeys = {}) => result.weight = DefaultWeight

\* "GFS" in the default table: the exact entry (2.5) wins over the earlier
\* entry "GFS+HRRR" (3.0) that contains it.
C27_Witness ==
    /\ LookedUp
    /\ last_call.source = S_GFS
    /\ combiner.weights = DEFAULT_WEIGHTS
    /\ \E i \in SubstringKeys : \E j \in ExactKeys :
          i < j /\ combiner.weights[i].weight # combiner.weights[j].weight
    /\ result.weight = Lit(5, 2)

\* ------------------------------------------------------------------------
\* Further properties of the EdgeDetector
\* ------------------------------------------------------------------------

\* Bracket i of the last analysis has a signal in both directions.
BothSides(i) == SignalsFor(i, "YES") # {} /\ SignalsFor(i, "NO") # {}

Crossed(bracket) == bracket.yes_bid > bracket.yes_ask

\* C28: with a fee rate in [0, 1) and a threshold of at least 0, a bracket
\* quoted bid <= ask gets at most one signal; a bracket that gets a YES
\* and a NO signal has a crossed quote.
C28_OneSidePerBracket ==
    (/\ Priced
     /\ FGe(detector.fee_rate, Lit(0, 1)) /\ FLt(detector.fee_rate, Lit(1, 1))
     /\ FGe(analysis.min_edge, Lit(0, 1))) =>
        \A i \in DOMAIN analysis.brackets :
            /\ ~Crossed(analysis.brackets[i]) =>
                  Cardinality(SignalsFor(i, "YES") \cup SignalsFor(i, "NO")) <= 1
            /\ BothSides(i) => Crossed(analysis.brackets[i])

\* One market where a bracket quoted 18/22 gets exactly one signal and a
\* bracket quoted 90/10 gets both.
C28_Witness ==
    /\ Priced
    /\ \E i \in DOMAIN analysis.brackets :
          /\ analysis.brackets[i].yes_bid = 18 /\ analysis.brackets[i].yes_ask = 22
          /\ Cardinality(SignalsFor(i, "YES") \cup SignalsFor(i, "NO")) = 1
    /\ \E i \in DOMAIN analysis.brackets :
          /\ analysis.brackets[i].yes_bid = 90 /\ analysis.brackets[i].yes_ask = 10
          /\ BothSides(i)

\* ------------------------------------------------------------------------
\* Settlement and pricing of a bracket
\* ------------------------------------------------------------------------

IsWhole(x) == IsFin(x) /\ x.d = 1

\* One of the three bracket types, with whole-degree bounds.
WholeDegreeBracket(b) ==
    \/ b.bracket_type = "between" /\ IsWhole(b.lower_bound) /\ IsWhole(b.upper_bound)
    \/ b.bracket_type = "greater_than" /\ IsWhole(b.lower_bound)
    \/ b.bracket_type = "less_than" /\ IsWhole(b.upper_bound)

\* The cell [t - 0.5, t + 0.5] lies inside [limits.lo, limits.hi].
CellInside(t, limits) ==
    /\ FLe(limits.lo, FSub(t, Lit(1, 2)))
    /\ FLe(FAdd(t, Lit(1, 2)), limits.hi)

\* C29: for a whole-degree temperature t and a bracket with whole-degree
\* bounds, contains_temp(t) holds exactly when the cell [t - 0.5, t + 0.5]
\* lies inside the interval over which calculate_bracket_probability takes
\* the normal mass.
C29_SettlementMatchesPricing ==
    (/\ contained # NotCalled
     /\ IsWhole(contained.temp)
     /\ WholeDegreeBracket(contained.bracket)) =>
        (contained.returned <=> CellInside(contained.temp, IntegrationLimits(contained.bracket)))

\* GREATER_THAN 58 asked about 59: the cell [58.5, 59.5] starts exactly at
\* the lower limit 58.5 and the reading settles the bracket.
C29_Witness ==
    /\ contained # NotCalled
    /\ contained.bracket = MarketBracket("greater_than", Lit(58, 1), None)
    /\ contained.temp = Lit(59, 1)
    /\ IntegrationLimits(contained.bracket).lo = FSub(contained.temp, Lit(1, 2))
    /\ contained.returned

\* ------------------------------------------------------------------------
\* The bounds of an AdjustedForecast
\* ------------------------------------------------------------------------

\* adjust used an observation whose observed high lies within its own
\* plausible range.
UsedConsistentObservation ==
    /\ adjusted # NotCalled
    /\ adjusted.observation # None
    /\ FLe(adjusted.observation.possible_actual_high_low, adjusted.observation.observed_high_f)
    /\ FLe(adjusted.observation.observed_high_f, adjusted.observation.possible_actual_high_high)

\* C30: an adjustment that used such an observation returns
\* min_possible_high <= mean_temp_f <= max_possible_high, at every time of
\* day.
C30_MeanWithinPossibleHighs ==
    UsedConsistentObservation =>
        /\ FLe(adjusted.min_possible_high, adjusted.mean_temp_f)
        /\ FLe(adjusted.mean_temp_f, adjusted.max_possible_high)

=============================================================================
